---- MODULE Spec2Model ----
(***************************************************************************)
(* A model of the sas7bdat reader (src/sas7bdat.py): the two row           *)
(* decompressors, the row projector, the header and metadata traversal,    *)
(* the row generator readlines and convert_file.                           *)
(*                                                                         *)
(* Python strings and lists are sequences; a Python index k is the         *)
(* sequence index k + 1.  Bytes are the integers 0..255.                   *)
(***************************************************************************)
EXTENDS Integers, Sequences, FiniteSets, TLC

(***************************************************************************)
(* Bounds of the model.                                                    *)
(***************************************************************************)
\* longest compressed slice handed to a decompressor in SpecRow
MaxSlice == 4
\* most generators (calls of readlines / __iter__) per reader in Spec
MaxIters == 2
\* most pages after the first page of a file in Spec
MaxPages == 2

(***************************************************************************)
(* Python primitives.                                                      *)
(***************************************************************************)
Min(a, b) == IF a <= b THEN a ELSE b
Max(a, b) == IF a >= b THEN a ELSE b

\* a slice bound as Python normalises it against a sequence of length n
PyIdx(x, n) == IF x < 0 THEN Max(x + n, 0) ELSE Min(x, n)

\* s[a:b]
PySlice(s, a, b) ==
    LET lo == PyIdx(a, Len(s))
        hi == PyIdx(b, Len(s))
    IN  IF hi <= lo THEN << >> ELSE SubSeq(s, lo + 1, hi)

\* s[a:b] = p on a list (the list shrinks or grows with Len(p))
PySliceAssign(s, a, b, p) ==
    LET lo == PyIdx(a, Len(s))
        hi == Max(PyIdx(b, Len(s)), lo)
    IN  SubSeq(s, 1, lo) \o p \o SubSeq(s, hi + 1, Len(s))

\* [b] * n
Repeat(b, n) == [k \in 1..n |-> b]

(***************************************************************************)
(* RLEDecompressor.decompress_row.  The result is the joined byte string,  *)
(* raised = TRUE when an index into page is out of range (IndexError),     *)
(* unknown = TRUE when the else branch logged 'unknown control byte'.      *)
(***************************************************************************)
\* RLECopyCount copying one byte less than the command announces
RLECopyCountShort(base, end_of_first_byte, length, i) ==
    Min(end_of_first_byte + base - 1, length - (i + 1))

\* the literal copies 0x80, 0x90, 0xA0, 0xB0: base is 1, 17, 33, 49
RLECopyCount(base, end_of_first_byte, length, i) ==
    Min(end_of_first_byte + base, length - (i + 1))

\* one pass of the body for j = i; st = [i, result, raised, unknown, top]:
\* top is the end of the highest page slice a copy command has taken
RLECommand(st, offset, length, page) ==
    LET i == st.i
        InPage(k) == k < Len(page)
        At(k) == page[k + 1]
        control_byte == (At(offset + i) \div 16) * 16
        end_of_first_byte == At(offset + i) % 16
        Raise == [st EXCEPT !.raised = TRUE]
        Copy(base) ==
            LET count_of_bytes_to_copy ==
                    RLECopyCount(base, end_of_first_byte, length, i)
                start == offset + i + 1
            IN  [st EXCEPT
                   !.result = @ \o PySlice(page, start,
                                           start + count_of_bytes_to_copy),
                   !.top = Max(@, Min(start + count_of_bytes_to_copy,
                                      Len(page))),
                   !.i = i + count_of_bytes_to_copy + 1]
    IN  IF ~InPage(offset + i) THEN Raise
        ELSE CASE control_byte = 0 ->
                    IF i # length - 1
                    THEN IF ~InPage(offset + i + 1) THEN Raise
                         ELSE LET count_of_bytes_to_copy ==
                                      At(offset + i + 1) + 64 +
                                      end_of_first_byte * 256
                                  start == offset + i + 2
                              IN  [st EXCEPT
                                     !.result = @ \o PySlice(page, start,
                                                 start + count_of_bytes_to_copy),
                                     !.top = Max(@,
                                         Min(start + count_of_bytes_to_copy,
                                             Len(page))),
                                     !.i = i + count_of_bytes_to_copy + 1 + 1]
                    ELSE [st EXCEPT !.i = i + 1]
               [] control_byte = 64 ->
                    IF ~InPage(offset + i + 1) THEN Raise
                    ELSE LET copy_counter == end_of_first_byte * 16 +
                                             At(offset + i + 1)
                         IN  IF ~InPage(offset + i + 2) THEN Raise
                             ELSE [st EXCEPT
                                     !.result = @ \o Repeat(At(offset + i + 2),
                                                            copy_counter + 18),
                                     !.i = i + 2 + 1]
               [] control_byte = 96 ->
                    IF ~InPage(offset + i + 1) THEN Raise
                    ELSE [st EXCEPT
                            !.result = @ \o Repeat(32, end_of_first_byte * 256 +
                                                   At(offset + i + 1) + 17),
                            !.i = i + 1 + 1]
               [] control_byte = 112 ->
                    IF ~InPage(offset + i + 1) THEN Raise
                    ELSE [st EXCEPT
                            !.result = @ \o Repeat(0, At(offset + i + 1) + 17),
                            !.i = i + 1 + 1]
               [] control_byte = 128 -> Copy(1)
               [] control_byte = 144 -> Copy(17)
               [] control_byte = 160 -> Copy(33)
               [] control_byte = 176 -> Copy(49)
               [] control_byte = 192 ->
                    IF ~InPage(offset + i + 1) THEN Raise
                    ELSE [st EXCEPT
                            !.result = @ \o Repeat(At(offset + i + 1),
                                                   end_of_first_byte + 3),
                            !.i = i + 1 + 1]
               [] control_byte = 208 ->
                    [st EXCEPT !.result = @ \o Repeat(64, end_of_first_byte + 2),
                               !.i = i + 1]
               [] control_byte = 224 ->
                    [st EXCEPT !.result = @ \o Repeat(32, end_of_first_byte + 2),
                               !.i = i + 1]
               [] control_byte = 240 ->
                    [st EXCEPT !.result = @ \o Repeat(0, end_of_first_byte + 2),
                               !.i = i + 1]
               [] OTHER ->
                    [st EXCEPT !.unknown = TRUE, !.i = i + 1]

\* for j in xrange(length): if i != j: continue ...
RECURSIVE RLELoop(_, _, _, _, _)
RLELoop(j, st, offset, length, page) ==
    IF j >= length \/ st.raised THEN st
    ELSE IF st.i # j THEN RLELoop(j + 1, st, offset, length, page)
    ELSE RLELoop(j + 1, RLECommand(st, offset, length, page),
                 offset, length, page)

RLEDecompress(offset, length, result_length, page) ==
    RLELoop(0, [i |-> 0, result |-> << >>, raised |-> FALSE,
                unknown |-> FALSE, top |-> 0], offset, length, page)

(***************************************************************************)
(* RDCDecompressor.                                                        *)
(***************************************************************************)
\* bit k (0..15, most significant first) of the two prefix bytes at offset
bytes_to_bits(src, offset, k) ==
    (src[offset + (k \div 8) + 1] \div (2 ^ (7 - (k % 8)))) % 2

ensure_capacity(src, capacity) ==
    IF capacity >= Len(src)
    THEN src \o Repeat(0, Max(capacity, 2 * Len(src)) - Len(src))
    ELSE src

is_short_rle(first_byte_of_cb) == first_byte_of_cb \in {0, 1, 2, 3, 4, 5}

is_single_byte_marker(first_byte_of_cb) ==
    first_byte_of_cb \in {2, 4, 6, 8, 10}

is_two_bytes_marker(double_bytes_cb) ==
    Len(double_bytes_cb) = 2 /\ ((double_bytes_cb[1] \div 16) % 16) > 2

is_three_bytes_marker(three_byte_marker) ==
    Len(three_byte_marker) = 3 /\
    ((three_byte_marker[1] \div 16) % 16) \in {1, 2}

get_length_of_rle_pattern(first_byte_of_cb) ==
    IF first_byte_of_cb <= 5 THEN first_byte_of_cb + 3 ELSE 0

get_length_of_one_byte_pattern(first_byte_of_cb) ==
    IF is_single_byte_marker(first_byte_of_cb)
    THEN first_byte_of_cb + 14 ELSE 0

get_length_of_two_bytes_pattern(double_bytes_cb) ==
    (double_bytes_cb[1] \div 16) % 16

get_length_of_three_bytes_pattern(p_type, three_byte_marker) ==
    IF p_type = 1
    THEN 19 + (three_byte_marker[1] % 16) + (three_byte_marker[2] * 16)
    ELSE IF p_type = 2 THEN three_byte_marker[3] + 16 ELSE 0

get_offset_for_one_byte_pattern(first_byte_of_cb) ==
    IF first_byte_of_cb = 8 THEN 24
    ELSE IF first_byte_of_cb = 10 THEN 40 ELSE 0

get_offset_for_two_bytes_pattern(double_bytes_cb) ==
    3 + (double_bytes_cb[1] % 16) + (double_bytes_cb[2] * 16)

get_offset_for_three_bytes_pattern(triple_bytes_cb) ==
    3 + (triple_bytes_cb[1] % 16) + (triple_bytes_cb[2] * 16)

\* the nibble test of line 266: the high and the low nibble of next_byte agree
NibblesEqual(next_byte) == (next_byte \div 16) = (next_byte % 16)

(***************************************************************************)
(* One item of a prefix group (one pass of 'for bit_index').  st =         *)
(* [src_offset, out_offset, out_row, raised, unknown, brk, markers,        *)
(* logged, items]: brk is the break out of the for loop, markers the class *)
(* of every marker met, in order, logged the offsets of the unknown        *)
(* markers as the error message names them, items the number of literals   *)
(* and markers consumed since the last prefix.                             *)
(***************************************************************************)
RDCItem(st, bit, src_row) ==
    LET src_offset == st.src_offset
        out_offset == st.out_offset
    IN  IF src_offset >= Len(src_row) THEN [st EXCEPT !.brk = TRUE]
        ELSE IF bit = 0
        THEN LET out_row == ensure_capacity(st.out_row, out_offset)
             IN  IF out_offset >= Len(out_row)
                 THEN [st EXCEPT !.raised = TRUE]
                 ELSE [st EXCEPT
                         !.out_row = [out_row EXCEPT ![out_offset + 1] =
                                          src_row[src_offset + 1]],
                         !.src_offset = src_offset + 1,
                         !.out_offset = out_offset + 1,
                         !.items = @ + 1]
        ELSE IF src_offset + 1 >= Len(src_row) THEN [st EXCEPT !.brk = TRUE]
        ELSE
        LET marker_byte == src_row[src_offset + 1]
            next_byte == src_row[src_offset + 2]
            two_bytes_marker == PySlice(src_row, src_offset, src_offset + 2)
            three_bytes_marker == PySlice(src_row, src_offset, src_offset + 3)
            \* out_row[out_offset:out_offset + length] = pattern
            Put(length, pattern, consumed, class) ==
                [st EXCEPT
                   !.out_row = PySliceAssign(
                                  ensure_capacity(st.out_row,
                                                  out_offset + length),
                                  out_offset, out_offset + length, pattern),
                   !.src_offset = src_offset + consumed,
                   !.out_offset = out_offset + length,
                   !.markers = Append(@, class),
                   !.items = @ + 1]
            \* out_row[start:end] after ensure_capacity
            Back(length, back_offset) ==
                PySlice(ensure_capacity(st.out_row, out_offset + length),
                        out_offset - back_offset,
                        out_offset - back_offset + length)
        IN  IF is_short_rle(marker_byte)
            THEN LET length == get_length_of_rle_pattern(marker_byte)
                 IN  Put(length, Repeat(next_byte, length), 2, "short_rle")
            ELSE IF is_single_byte_marker(marker_byte) /\
                    ~NibblesEqual(next_byte)
            THEN LET length == get_length_of_one_byte_pattern(marker_byte)
                     back_offset ==
                         get_offset_for_one_byte_pattern(marker_byte)
                 IN  Put(length, Back(length, back_offset), 1, "one_byte")
            ELSE IF is_two_bytes_marker(two_bytes_marker)
            THEN LET length ==
                         get_length_of_two_bytes_pattern(two_bytes_marker)
                     back_offset ==
                         get_offset_for_two_bytes_pattern(two_bytes_marker)
                 IN  Put(length, Back(length, back_offset), 2, "two_bytes")
            ELSE IF is_three_bytes_marker(three_bytes_marker)
            THEN LET p_type == (three_bytes_marker[1] \div 16) % 16
                     back_offset ==
                         IF p_type = 2
                         THEN get_offset_for_three_bytes_pattern(
                                  three_bytes_marker)
                         ELSE 0
                     length == get_length_of_three_bytes_pattern(
                                   p_type, three_bytes_marker)
                 IN  IF p_type = 1
                     THEN Put(length, Repeat(three_bytes_marker[3], length),
                              3, "three_bytes_fill")
                     ELSE Put(length, Back(length, back_offset),
                              3, "three_bytes_back")
            ELSE [st EXCEPT !.unknown = TRUE, !.brk = TRUE,
                            !.markers = Append(@, "unknown"),
                            !.logged = Append(@, src_offset)]

\* for bit_index in xrange(16)
RECURSIVE RDCGroup(_, _, _, _)
RDCGroup(bit_index, st, prefix_offset, src_row) ==
    IF bit_index >= 16 \/ st.brk \/ st.raised THEN st
    ELSE RDCGroup(bit_index + 1,
                  RDCItem(st, bytes_to_bits(src_row, prefix_offset, bit_index),
                          src_row),
                  prefix_offset, src_row)

\* RDCPrefix without 'src_offset += 2': the prefix is read and not
\* consumed
RDCPrefixStay(st, src_row) ==
    RDCGroup(0, [st EXCEPT !.brk = FALSE, !.groups = @ + 1, !.items = 0],
             st.src_offset, src_row)

\* one pass of the while loop: the prefix and the items it governs
RDCPrefix(st, src_row) ==
    RDCGroup(0, [st EXCEPT !.src_offset = @ + 2, !.brk = FALSE,
                           !.groups = @ + 1, !.items = 0],
             st.src_offset, src_row)

\* while src_offset < (len(src_row) - 2)
RDCRunning(st, src_row) == ~st.raised /\ st.src_offset < Len(src_row) - 2

RECURSIVE RDCLoop(_, _)
RDCLoop(st, src_row) ==
    IF ~RDCRunning(st, src_row) THEN st
    ELSE RDCLoop(RDCPrefix(st, src_row), src_row)

\* the decompressor before its loop
RDCStart(result_length) ==
    [src_offset |-> 0, out_offset |-> 0,
     out_row |-> Repeat(0, result_length),
     raised |-> FALSE, unknown |-> FALSE, brk |-> FALSE,
     markers |-> << >>, groups |-> 0, logged |-> << >>, items |-> 0]

\* return ''.join([chr(x) for x in out_row]), with what the loop met
RDCReturn(st) ==
    [result |-> st.out_row, raised |-> st.raised, unknown |-> st.unknown,
     markers |-> st.markers, groups |-> st.groups,
     src_offset |-> st.src_offset, logged |-> st.logged]

RDCDecompress(offset, length, result_length, page) ==
    RDCReturn(RDCLoop(RDCStart(result_length),
                      PySlice(page, offset, offset + length)))


(***************************************************************************)
(* SAS7BDAT._read_val for the formats the row projector uses.  A cell is   *)
(* [kind, v]: "int" with the integer, "str" with the stripped bytes,       *)
(* "float" / "time" / "datetime" / "date" with the eight bytes of the      *)
(* double (most significant first), "None" for a NaN.  ok = FALSE is       *)
(* struct.error.  The OverflowError of timedelta and datetime on a double  *)
(* beyond the range of datetime is left out: the numbers of the model's    *)
(* files are within it.                                                    *)
(***************************************************************************)
RECURSIVE LStrip(_, _)
LStrip(s, chars) ==
    IF s # << >> /\ Head(s) \in chars THEN LStrip(Tail(s), chars) ELSE s

RECURSIVE RStrip(_, _)
RStrip(s, chars) ==
    IF s # << >> /\ s[Len(s)] \in chars
    THEN RStrip(SubSeq(s, 1, Len(s) - 1), chars) ELSE s

Strip(s, chars) == RStrip(LStrip(s, chars), chars)

\* the characters str.strip() removes
Whitespace == {9, 10, 11, 12, 13, 32}

Reverse(s) == [k \in 1..Len(s) |-> s[Len(s) + 1 - k]]

\* eight bytes, most significant first, are a NaN
IsNaN(b) ==
    /\ (b[1] % 128) * 16 + (b[2] \div 16) = 2047
    /\ (b[2] % 16 # 0 \/ \E k \in 3..8 : b[k] # 0)

\* struct.unpack of a signed 16-bit integer from two bytes
UnpackShort(endianess, b) ==
    LET u == IF endianess = "big" THEN b[1] * 256 + b[2]
             ELSE b[2] * 256 + b[1]
    IN  IF u >= 32768 THEN u - 65536 ELSE u

ReadVal(fmt, bytes, size, endianess) ==
    IF fmt = "s"
    THEN \* '%ds' % min(size, len(bytes)) on bytes[:size]
         IF Min(size, Len(bytes)) < 0
         THEN [ok |-> FALSE, kind |-> "str", v |-> << >>]
         ELSE [ok |-> TRUE, kind |-> "str",
               v |-> Strip(Strip(PySlice(bytes, 0, size), {0}), Whitespace)]
    ELSE IF fmt \in {"number", "datetime", "date", "time"}
    THEN LET size1 == IF Len(bytes) # size THEN Len(bytes) ELSE size
             padded == IF size1 < 8
                       THEN IF endianess = "little"
                            THEN Repeat(0, 8 - size1) \o bytes
                            ELSE bytes \o Repeat(0, 8 - size1)
                       ELSE bytes
             size2 == IF size1 < 8 THEN 8 ELSE size1
             taken == PySlice(padded, 0, size2)
             msb == IF endianess = "big" THEN taken ELSE Reverse(taken)
         IN  IF Len(taken) # 8
             THEN [ok |-> FALSE, kind |-> "float", v |-> << >>]
             ELSE IF IsNaN(msb)
             THEN [ok |-> TRUE, kind |-> "None", v |-> msb]
             ELSE [ok |-> TRUE,
                   kind |-> IF fmt = "number" THEN "float" ELSE fmt,
                   v |-> msb]
    ELSE \* 'h'
         LET taken == PySlice(bytes, 0, size)
         IN  IF Len(taken) # 2
             THEN [ok |-> FALSE, kind |-> "int", v |-> << >>]
             ELSE [ok |-> TRUE, kind |-> "int",
                   v |-> UnpackShort(endianess, taken)]


(***************************************************************************)
(* State.                                                                  *)
(***************************************************************************)
VARIABLES
    file,                      \* the bytes on disk: header fields and pages
    args,                      \* what the caller passes and how often it iterates
    rd,                        \* the SAS7BDAT object (with its SASHeader)
    phase,                     \* where __init__ stands
    gens,                      \* the generators readlines() has returned
    conv,                      \* the activation of convert_file
    emitted,                   \* every data row yielded so far, in order
    short_read,                \* rows yielded when a page first came short
    row,                       \* one row slice and what was made of it
    TIME_FORMAT_STRINGS,       \* class attributes of SAS7BDAT
    DATE_TIME_FORMAT_STRINGS,
    DATE_FORMAT_STRINGS

vars == <<file, args, rd, phase, gens, conv, emitted, short_read,
          row, TIME_FORMAT_STRINGS, DATE_TIME_FORMAT_STRINGS, DATE_FORMAT_STRINGS>>

(***************************************************************************)
(* A string is the sequence of its characters.                             *)
(***************************************************************************)
sTIME == <<"T", "I", "M", "E">>
sDATETIME == <<"D", "A", "T", "E", "T", "I", "M", "E">>
sDATE == <<"D", "A", "T", "E">>
sYYMMDD == <<"Y", "Y", "M", "M", "D", "D">>
sMMDDYY == <<"M", "M", "D", "D", "Y", "Y">>
sDDMMYY == <<"D", "D", "M", "M", "Y", "Y">>
sJULIAN == <<"J", "U", "L", "I", "A", "N">>
sMONYY == <<"M", "O", "N", "Y", "Y">>

DefaultTimeFormats == {sTIME}
DefaultDateTimeFormats == {sDATETIME}
DefaultDateFormats == {sYYMMDD, sMMDDYY, sDDMMYY, sDATE, sJULIAN, sMONYY}

RLE_COMPRESSION == <<"S", "A", "S", "Y", "Z", "C", "R", "L">>
RDC_COMPRESSION == <<"S", "A", "S", "Y", "Z", "C", "R", "2">>

\* DECOMPRESSORS.get(compression)(self).decompress_row(...)
\* the bytes returned, the IndexError and the error logged
Decompressed(r) ==
    [result |-> r.result, raised |-> r.raised, unknown |-> r.unknown]

Decompress(compression, offset, length, result_length, page) ==
    Decompressed(IF compression = RLE_COMPRESSION
                 THEN RLEDecompress(offset, length, result_length, page)
                 ELSE RDCDecompress(offset, length, result_length, page))

(***************************************************************************)
(* SAS7BDAT._process_byte_array_with_data on the reader r and the bytes of *)
(* its cached page.  The formats are looked up in the class attributes.    *)
(***************************************************************************)
\* the format _read_val is called with for column i (lines 648-678)
CellFormat(r, i) ==
    IF r.columns[i].type = "number"
    THEN IF r.column_data_lengths[i] <= 2 THEN "h"
         ELSE LET fmt == r.columns[i].format
              IN  IF fmt = << >> THEN "number"
                  ELSE IF fmt \in TIME_FORMAT_STRINGS THEN "time"
                  ELSE IF fmt \in DATE_TIME_FORMAT_STRINGS THEN "datetime"
                  ELSE IF fmt \in DATE_FORMAT_STRINGS THEN "date"
                  ELSE "number"
    ELSE "s"

\* for i in xrange(column_count); acc = [row_elements, exc]
RECURSIVE ProjectColumns(_, _, _, _, _)

\* row_elements.append(val) for column i, then the columns after it
AppendCell(r, i, source, offset, acc, val) ==
    IF ~val.ok THEN [acc EXCEPT !.exc = "struct.error"]
    ELSE ProjectColumns(r, i + 1, source, offset,
             [acc EXCEPT !.row_elements =
                  Append(@, [kind |-> val.kind, v |-> val.v])])

ProjectColumns(r, i, source, offset, acc) ==
    IF i > r.properties.column_count \/ acc.exc # "" THEN acc
    ELSE IF i > Len(r.column_data_lengths)
    THEN [acc EXCEPT !.exc = "IndexError"]
    ELSE IF r.column_data_lengths[i] = 0 THEN acc
    ELSE IF i > Len(r.column_data_offsets) \/ i > Len(r.columns)
    THEN [acc EXCEPT !.exc = "IndexError"]
    ELSE
    LET length == r.column_data_lengths[i]
        start == offset + r.column_data_offsets[i]
        end == offset + r.column_data_offsets[i] + length
        temp == PySlice(source, start, end)
    IN  AppendCell(r, i, source, offset, acc,
                   ReadVal(CellFormat(r, i), temp, length, r.endianess))

\* the row: its cells, the page and the offset it was read at, whether the
\* slice was decompressed and what the decompressor logged
Row(r, offset, length, page, decompress, d, acc) ==
    [row_elements |-> acc.row_elements, exc |-> acc.exc,
     page |-> r.cached_page, offset |-> offset, length |-> length,
     decompressed |-> decompress,
     source_length |-> IF decompress /\ ~d.raised THEN Len(d.result)
                       ELSE Len(page),
     raised |-> decompress /\ d.raised,
     unknown |-> decompress /\ ~d.raised /\ d.unknown]

\* ProjectSource ending the row at an unknown control byte
ProjectSourceCut(r, offset, length, page, decompress, d) ==
    Row(r, offset, length, page, decompress, d,
        IF decompress /\ d.raised
        THEN [row_elements |-> << >>, exc |-> "IndexError"]
        ELSE IF decompress /\ d.unknown
        THEN [row_elements |-> << >>, exc |-> ""]
        ELSE ProjectColumns(r, 1, IF decompress THEN d.result ELSE page,
                            IF decompress THEN 0 ELSE offset,
                            [row_elements |-> << >>, exc |-> ""]))

\* lines 638-679 on the source: the buffer d of the decompressor at offset 0
\* when the slice was decompressed, else the page at offset
ProjectSource(r, offset, length, page, decompress, d) ==
    Row(r, offset, length, page, decompress, d,
        IF decompress /\ d.raised
        THEN [row_elements |-> << >>, exc |-> "IndexError"]
        ELSE ProjectColumns(r, 1, IF decompress THEN d.result ELSE page,
                            IF decompress THEN 0 ELSE offset,
                            [row_elements |-> << >>, exc |-> ""]))

\* ProcessByteArrayWithData with the test of line 630 turned into '<='
ProcessByteArrayWithDataEq(r, offset, length, page) ==
    ProjectSource(r, offset, length, page,
                  r.properties.compression # << >> /\
                      length <= r.properties.row_length,
                  Decompress(r.properties.compression, offset, length,
                             r.properties.row_length, page))

ProcessByteArrayWithData(r, offset, length, page) ==
    ProjectSource(r, offset, length, page,
                  r.properties.compression # << >> /\
                      length < r.properties.row_length,
                  Decompress(r.properties.compression, offset, length,
                             r.properties.row_length, page))

(***************************************************************************)
(* Optional values: None is the empty sequence, a value x is <<x>>.        *)
(***************************************************************************)
None == << >>
Some(x) == <<x>>
Val(o) == o[1]

\* s[k] with Python's negative indices; TRUE when k is out of range
PyIndexError(s, k) == k >= Len(s) \/ k < 0 - Len(s)
PyAt(s, k) == IF k < 0 THEN s[Len(s) + k + 1] ELSE s[k + 1]

\* needle in haystack
Contains(haystack, needle) ==
    \E k \in 0..(Len(haystack) - Len(needle)) :
        SubSeq(haystack, k + 1, k + Len(needle)) = needle

(***************************************************************************)
(* Constants of SASHeader.                                                 *)
(***************************************************************************)
PAGE_BIT_OFFSET_X86 == 16
PAGE_BIT_OFFSET_X64 == 32
SUBHEADER_POINTER_LENGTH_X86 == 12
SUBHEADER_POINTER_LENGTH_X64 == 24
PAGE_META_TYPE == 0
PAGE_DATA_TYPE == 256
PAGE_MIX_TYPE == {512, 640}
PAGE_AMD_TYPE == 1024
PAGE_METC_TYPE == 16384
PAGE_COMP_TYPE == -28672
PAGE_MIX_DATA_TYPE == PAGE_MIX_TYPE \cup {PAGE_DATA_TYPE}
PAGE_META_MIX_AMD == {PAGE_META_TYPE} \cup PAGE_MIX_TYPE \cup {PAGE_AMD_TYPE}
SUBHEADER_POINTERS_OFFSET == 8
TRUNCATED_SUBHEADER_ID == 1
COMPRESSED_SUBHEADER_ID == 4
COMPRESSED_SUBHEADER_TYPE == 1
HEADER_READ == 288
U64_HEADER_LENGTH == 8192

PAGE_BIT_OFFSET(r) ==
    IF r.properties.u64 THEN PAGE_BIT_OFFSET_X64 ELSE PAGE_BIT_OFFSET_X86

SUBHEADER_POINTER_LENGTH(r) ==
    IF r.properties.u64 THEN SUBHEADER_POINTER_LENGTH_X64
    ELSE SUBHEADER_POINTER_LENGTH_X86

\* ProcessingSubheader.__init__
int_length(r) == IF r.properties.u64 THEN 8 ELSE 4

(***************************************************************************)
(* The files of the model.  A file is one of the headers below, one of the *)
(* schemas on its first page and a sequence of at most MaxPages further    *)
(* pages.  A page is 512 bytes long unless it is cut short.  The schema    *)
(* has a string column x (bytes 0-1 of a row) and a numeric column y       *)
(* (bytes 2-4), so a row is 5 bytes long.                                  *)
(***************************************************************************)
sFMT == <<"F", "M", "T">>

Header(h) ==
    CASE h = "x86" ->
           [size |-> 1024, magic |-> TRUE, byte32 |-> " ", byte37 |-> 1,
            byte39 |-> "2", header_length |-> 1024, page_length |-> 512,
            page_count |-> 3]
      [] h = "x64" ->
           [size |-> 8192, magic |-> TRUE, byte32 |-> "3", byte37 |-> 0,
            byte39 |-> "1", header_length |-> 8192, page_length |-> 512,
            page_count |-> 3]
      [] h = "short" ->
           [size |-> 100, magic |-> TRUE, byte32 |-> " ", byte37 |-> 1,
            byte39 |-> "2", header_length |-> 1024, page_length |-> 512,
            page_count |-> 3]
      [] h = "magic" ->
           [size |-> 1024, magic |-> FALSE, byte32 |-> " ", byte37 |-> 1,
            byte39 |-> "2", header_length |-> 1024, page_length |-> 512,
            page_count |-> 3]
      [] h = "cut" ->
           [size |-> 600, magic |-> TRUE, byte32 |-> " ", byte37 |-> 1,
            byte39 |-> "2", header_length |-> 1024, page_length |-> 512,
            page_count |-> 3]
      [] h = "x64short" ->
           [size |-> 1024, magic |-> TRUE, byte32 |-> "3", byte37 |-> 0,
            byte39 |-> "1", header_length |-> 1024, page_length |-> 512,
            page_count |-> 3]
      [] h = "x64win" ->
           [size |-> 8192, magic |-> TRUE, byte32 |-> "3", byte37 |-> 1,
            byte39 |-> "2", header_length |-> 8192, page_length |-> 512,
            page_count |-> 3]
      [] h = "x86unix" ->
           [size |-> 1024, magic |-> TRUE, byte32 |-> " ", byte37 |-> 0,
            byte39 |-> "1", header_length |-> 1024, page_length |-> 512,
            page_count |-> 3]

GoodHeaders == {"x86", "x64"}
BadHeaders == {"short", "magic", "cut", "x64short"}
\* byte 32 and the platform byte disagree
MixedHeaders == {"x64win", "x86unix"}

\* the schemas: compression literal, format of y, row count and the
\* compressed rows the first page holds
Schema(v) ==
    CASE v = "plain" -> [compression |-> None, format |-> sDATE,
                         row_count |-> 3, data |-> 0]
      [] v = "rle" -> [compression |-> RLE_COMPRESSION, format |-> sFMT,
                       row_count |-> 2, data |-> 2]
      [] v = "rdc" -> [compression |-> RDC_COMPRESSION, format |-> << >>,
                       row_count |-> 2, data |-> 1]

Schemas == {"plain", "rle", "rdc"}

\* a compressed row of the schema: 5 bytes 'A' (RLE), 5 bytes 'A' (RDC)
Stream(compression) ==
    IF compression = RDC_COMPRESSION THEN <<128, 0, 2, 65>> ELSE <<194, 65>>

\* a subheader whose signature names the handler kind
MetaSub(kind, length, body) ==
    [offset |-> 400, length |-> length, compression |-> 0, type |-> 0,
     kind |-> kind, body |-> body]

\* the k-th compressed row of a page
DataSub(k, compression) ==
    [offset |-> 488 + 8 * k, length |-> Len(Stream(compression)),
     compression |-> COMPRESSED_SUBHEADER_ID,
     type |-> COMPRESSED_SUBHEADER_TYPE,
     kind |-> "none", body |-> Stream(compression)]

DataSubs(n, compression) == [k \in 1..n |-> DataSub(k, compression)]

\* the pointer table of the first page, as far as files differ in it: the
\* number of row-size, column-size and format-and-label subheaders, one
\* more pointer ("none" when there is none), and the one text reference
\* that is out of the ordinary ("std" when none is): the text-subheader
\* index of the first column's name, or of the second column's format or
\* label, is 1 with a single text subheader in the file ("name_idx",
\* "format_idx", "label_idx"), or the length of that name, format or label
\* is -1 ("name_neg", "format_neg", "label_neg")
StandardLayout ==
    [row_size |-> 1, column_size |-> 1, format_and_label |-> 2,
     extra |-> "none", text |-> "std"]

\* the index and the length a text reference of kind what carries
TextIdx(layout, what) == IF layout.text = what THEN 1 ELSE 0
TextLen(layout, what, len) == IF layout.text = what THEN 0 - 1 ELSE len

\* the additional pointer: a column-size subheader (one column) named by a
\* pointer of length 0, by a truncated pointer, by a truncated pointer of
\* length 0, or a pointer of length 0 to bytes that match no signature
ExtraSubs(extra) ==
    CASE extra = "none" -> << >>
      [] extra = "len0" ->
           << MetaSub("column_size", 0, [column_count |-> 1]) >>
      [] extra = "trunc" ->
           << [MetaSub("column_size", 12, [column_count |-> 1])
                 EXCEPT !.compression = TRUNCATED_SUBHEADER_ID] >>
      [] extra = "trunc0" ->
           << [MetaSub("column_size", 0, [column_count |-> 1])
                 EXCEPT !.compression = TRUNCATED_SUBHEADER_ID] >>
      [] extra = "len0data" ->
           << [offset |-> 488, length |-> 0, compression |-> 0,
               type |-> COMPRESSED_SUBHEADER_TYPE, kind |-> "none",
               body |-> << >>] >>

\* the subheaders that carry the schema sc in a file of word width w
SchemaSubs(sc, w, layout) ==
    LET n0 == Len(sc.compression)
        text == sc.compression \o <<"x", "y">> \o sDATE \o sFMT
        fstart == IF sc.format = sFMT THEN n0 + 6 ELSE n0 + 2
    IN  SubSeq(<< MetaSub("row_size", 480,
                      [row_length |-> 5, row_count |-> sc.row_count,
                       mix_page_row_count |-> 1]),
                  MetaSub("row_size", 480,
                      [row_length |-> 3, row_count |-> 1,
                       mix_page_row_count |-> 2]) >>,
               1, layout.row_size) \o
        SubSeq(<< MetaSub("column_size", 12, [column_count |-> 2]),
                  MetaSub("column_size", 12, [column_count |-> 1]) >>,
               1, layout.column_size) \o
        << MetaSub("subheader_counts", 304, [none |-> 0]),
           MetaSub("column_text", 28, [text |-> text]),
           MetaSub("column_name", 2 * 8 + 2 * w + 12,
               [pointers |-> << [idx |-> TextIdx(layout, "name_idx"),
                                 offset |-> n0,
                                 length |-> TextLen(layout, "name_neg", 1)],
                                [idx |-> 0, offset |-> n0 + 1,
                                 length |-> 1] >>]),
           MetaSub("column_attributes", 2 * (w + 8) + 2 * w + 12,
               [vectors |-> << [offset |-> 0, length |-> 2, ctype |-> 2],
                               [offset |-> 2, length |-> 3, ctype |-> 1] >>])
        >> \o
        SubSeq(<< MetaSub("format_and_label", 52,
                      [format_idx |-> 0, format_start |-> 0, format_len |-> 0,
                       label_idx |-> 0, label_start |-> 0, label_len |-> 0]),
                  MetaSub("format_and_label", 52,
                      [format_idx |-> TextIdx(layout, "format_idx"),
                       format_start |-> fstart,
                       format_len |->
                           TextLen(layout, "format_neg", Len(sc.format)),
                       label_idx |-> TextIdx(layout, "label_idx"),
                       label_start |-> 0,
                       label_len |-> TextLen(layout, "label_neg", 0)]) >>,
               1, layout.format_and_label) \o
        << MetaSub("column_list", 30, [none |-> 0]) >> \o
        ExtraSubs(layout.extra)

Page(type, block_count, subheaders, len) ==
    [type |-> type, block_count |-> block_count,
     subheader_count |-> Len(subheaders), subheaders |-> subheaders,
     len |-> len]

SchemaPage(sc, w, layout) ==
    Page(PAGE_META_TYPE, 0,
         SchemaSubs(sc, w, layout) \o DataSubs(sc.data, sc.compression), 512)

PageKinds == {"meta1", "meta0", "mix", "data2", "amd", "datacut"}

\* the pages that may follow the first
PageOf(kind, sc) ==
    CASE kind = "meta1" ->
           Page(PAGE_META_TYPE, 0, DataSubs(1, sc.compression), 512)
      [] kind = "meta0" -> Page(PAGE_META_TYPE, 0, << >>, 512)
      [] kind = "mix" ->
           Page(512, 1, <<MetaSub("subheader_counts", 304, [none |-> 0])>>,
                512)
      [] kind = "data2" -> Page(PAGE_DATA_TYPE, 2, << >>, 512)
      [] kind = "amd" -> Page(PAGE_AMD_TYPE, 0, << >>, 512)
      [] kind = "datacut" -> Page(PAGE_DATA_TYPE, 2, << >>, 30)

\* a page but the last is complete
CutOnlyLast(kinds) ==
    \A k \in 1..(Len(kinds) - 1) : kinds[k] # "datacut"

\* the file on disk: its header, the schema on its first page, the pages
\* that follow and the pointer table of the first page
MakeFile(h, v, kinds) ==
    [header |-> h, schema |-> v, kinds |-> kinds, layout |-> StandardLayout]

\* the header fields of the file on disk
FileHdr == Header(file.header)

\* the pages of the file on disk; a file that ends within its header has none
FilePages ==
    IF FileHdr.size < FileHdr.header_length THEN << >>
    ELSE <<SchemaPage(Schema(file.schema),
                      IF FileHdr.byte32 = "3" THEN 8 ELSE 4, file.layout)>> \o
         [k \in 1..Len(file.kinds) |->
              PageOf(file.kinds[k], Schema(file.schema))]

(***************************************************************************)
(* The bytes of a page.  A page is                                         *)
(*   [type, block_count, subheader_count, subheaders, len]                 *)
(* with the three header fields as read_page_header decodes them, its      *)
(* pointer table with the body of every subheader as its handler decodes   *)
(* it, and len bytes: zero but for the bodies of the subheaders whose      *)
(* signature is in no table (kind "none"), which are the compressed rows.  *)
(***************************************************************************)
IsRowBytes(sub) == sub.kind = "none"

PageBytes(p) ==
    LET data == SelectSeq(p.subheaders, IsRowBytes)
    IN  IF data = << >> THEN [k \in 1..p.len |-> 0]
        ELSE [k \in 1..p.len |->
                 LET hit == {n \in 1..Len(data) :
                                /\ data[n].offset < k
                                /\ k <= data[n].offset + Len(data[n].body)}
                 IN  IF hit = {} THEN 0
                     ELSE LET n == CHOOSE n \in hit : TRUE
                          IN  data[n].body[k - data[n].offset]]

\* the bytes of self.cached_page, read from the pages of the file
CachedBytes(r, pages) ==
    IF r.cached_page.tag = "page" THEN PageBytes(pages[r.cached_page.n])
    ELSE IF r.cached_page.tag = "header" THEN Repeat(0, r.cached_page.n)
    ELSE << >>

\* not self.cached_page
CachedPageFalsy(r) ==
    \/ r.cached_page.tag \in {"none", "empty"}
    \/ r.cached_page.tag = "header" /\ r.cached_page.n = 0

\* self._file.read(page_length) at a page boundary: the page read or 0
FileReadPage(r, pages) ==
    IF r.file_pos < Len(pages) THEN r.file_pos + 1 ELSE 0


(***************************************************************************)
(* The metadata handlers: process_subheader(offset, length) of each        *)
(* subheader class, as a function of the reader r and the subheader sub    *)
(* the pointer names.  r.exc names the exception that is propagating.      *)
(***************************************************************************)
RowSizeSubheader(r, sub) ==
    [r EXCEPT
       !.properties.row_length =
           IF @ = 0 THEN sub.body.row_length ELSE @,
       !.properties.row_count =
           IF @ = 0 THEN sub.body.row_count ELSE @,
       !.properties.mix_page_row_count =
           IF @ = 0 THEN sub.body.mix_page_row_count ELSE @]

\* ColumnSizeSubheader taking the length of the subheader for the count
ColumnSizeSubheaderLength(r, sub) ==
    [r EXCEPT !.properties.column_count = sub.length]

ColumnSizeSubheader(r, sub) ==
    [r EXCEPT !.properties.column_count = sub.body.column_count]

SubheaderCountsSubheader(r, sub) == r

ColumnTextSubheader(r, sub) ==
    LET strings == Append(r.column_names_strings, sub.body.text)
        \* the text holds at most one of the two literals in every file of
        \* the model, so the order of the loop over the set is immaterial
        compression_literal ==
            IF Contains(strings[1], RLE_COMPRESSION) THEN RLE_COMPRESSION
            ELSE IF Contains(strings[1], RDC_COMPRESSION) THEN RDC_COMPRESSION
            ELSE None
    IN  [r EXCEPT
           !.column_names_strings = strings,
           !.properties.compression =
               IF Len(strings) = 1 THEN compression_literal ELSE @]

\* for i in xrange(column_name_pointers_count), from pointer i (1-based)
RECURSIVE ColumnNameLoop(_, _, _, _)
ColumnNameLoop(r, sub, i, count) ==
    IF i > count \/ r.exc # "" THEN r
    ELSE LET ptr == sub.body.pointers[i]
         IN  IF PyIndexError(r.column_names_strings, ptr.idx)
             THEN [r EXCEPT !.exc = "IndexError"]
             ELSE ColumnNameLoop(
                      [r EXCEPT !.column_names = Append(@,
                           PySlice(PyAt(r.column_names_strings, ptr.idx),
                                   ptr.offset, ptr.offset + ptr.length))],
                      sub, i + 1, count)

ColumnNameSubheader(r, sub) ==
    ColumnNameLoop(r, sub, 1, (sub.length - 2 * int_length(r) - 12) \div 8)

RECURSIVE ColumnAttributesLoop(_, _, _, _)
ColumnAttributesLoop(r, sub, i, count) ==
    IF i > count THEN r
    ELSE LET vec == sub.body.vectors[i]
         IN  ColumnAttributesLoop(
                 [r EXCEPT
                    !.column_data_offsets = Append(@, vec.offset),
                    !.column_data_lengths = Append(@, vec.length),
                    !.column_types = Append(@, IF vec.ctype = 1 THEN "number"
                                               ELSE "string")],
                 sub, i + 1, count)

ColumnAttributesSubheader(r, sub) ==
    ColumnAttributesLoop(r, sub, 1,
        (sub.length - 2 * int_length(r) - 12) \div (int_length(r) + 8))

FormatAndLabelSubheader(r, sub) ==
    LET strings == r.column_names_strings
        format_idx == Min(sub.body.format_idx, Len(strings) - 1)
        label_idx == Min(sub.body.label_idx, Len(strings) - 1)
        n == Len(r.columns)
    IN  IF PyIndexError(strings, label_idx) \/ PyIndexError(strings, format_idx)
           \/ PyIndexError(r.column_names, n)
           \/ PyIndexError(r.column_types, n)
           \/ PyIndexError(r.column_data_lengths, r.current_column_number)
        THEN [r EXCEPT !.exc = "IndexError"]
        ELSE [r EXCEPT
                !.columns = Append(@,
                    [col_id |-> r.current_column_number,
                     name |-> PyAt(r.column_names, n),
                     label |-> PySlice(PyAt(strings, label_idx),
                                  sub.body.label_start,
                                  sub.body.label_start + sub.body.label_len),
                     format |-> PySlice(PyAt(strings, format_idx),
                                  sub.body.format_start,
                                  sub.body.format_start + sub.body.format_len),
                     type |-> PyAt(r.column_types, n),
                     length |-> PyAt(r.column_data_lengths,
                                     r.current_column_number)]),
                !.current_column_number = @ + 1]

ColumnListSubheader(r, sub) == r

\* SUBHEADER_SIGNATURE_TO_INDEX.get(signature), then the data rule
get_subheader_class(r, signature, compression, type) ==
    LET index == IF signature = "none" THEN None ELSE Some(signature)
    IN  IF /\ r.properties.compression # None
           /\ index = None
           /\ (compression = COMPRESSED_SUBHEADER_ID \/ compression = 0)
           /\ type = COMPRESSED_SUBHEADER_TYPE
        THEN Some("data")
        ELSE index

\* SUBHEADER_INDEX_TO_CLASS.get(subheader_index)(parent).process_subheader
ProcessSubheader(r, index, sub) ==
    CASE index = "row_size" -> RowSizeSubheader(r, sub)
      [] index = "column_size" -> ColumnSizeSubheader(r, sub)
      [] index = "subheader_counts" -> SubheaderCountsSubheader(r, sub)
      [] index = "column_text" -> ColumnTextSubheader(r, sub)
      [] index = "column_name" -> ColumnNameSubheader(r, sub)
      [] index = "column_attributes" -> ColumnAttributesSubheader(r, sub)
      [] index = "format_and_label" -> FormatAndLabelSubheader(r, sub)
      [] index = "column_list" -> ColumnListSubheader(r, sub)

\* the pointer process_subheader_pointers returns
SubheaderPointer(sub) ==
    [offset |-> sub.offset, length |-> sub.length,
     compression |-> sub.compression, type |-> sub.type]

\* for i in xrange(current_page_subheaders_count), from pointer i (1-based)
RECURSIVE ProcessPageMetadataLoop(_, _, _)
ProcessPageMetadataLoop(r, page, i) ==
    IF i > Val(r.current_page_subheaders_count) \/ r.exc # "" THEN r
    ELSE
    LET length == int_length(r)
        total_offset == SUBHEADER_POINTERS_OFFSET + PAGE_BIT_OFFSET(r) +
                        SUBHEADER_POINTER_LENGTH(r) * (i - 1)
    IN  IF total_offset + 2 * length + 2 > page.len
        THEN [r EXCEPT !.exc = "struct.error"]
        ELSE
        LET sub == page.subheaders[i]
            pointer == SubheaderPointer(sub)
        IN  IF pointer.compression # TRUNCATED_SUBHEADER_ID
            THEN LET subheader_index ==
                         get_subheader_class(r, sub.kind, pointer.compression,
                                             pointer.type)
                 IN  IF subheader_index # None
                     THEN IF Val(subheader_index) # "data"
                          THEN ProcessPageMetadataLoop(
                                   ProcessSubheader(r, Val(subheader_index),
                                                    sub), page, i + 1)
                          ELSE ProcessPageMetadataLoop(
                                   [r EXCEPT
                                      !.current_page_data_subheader_pointers =
                                          Append(@, pointer)], page, i + 1)
                     ELSE ProcessPageMetadataLoop(r, page, i + 1)
            ELSE ProcessPageMetadataLoop(r, page, i + 1)

\* SASHeader.process_page_metadata on the cached page
process_page_metadata(r, pages) ==
    ProcessPageMetadataLoop(r, pages[r.cached_page.n], 1)

\* SASHeader.read_page_header on the cached page: three 'h' fields, each
\* a struct.error when the page ends before it
read_page_header(r, pages) ==
    LET page == pages[r.cached_page.n]
        bit_offset == PAGE_BIT_OFFSET(r)
        Raise(x) == [x EXCEPT !.exc = "struct.error"]
        r1 == [r EXCEPT !.current_page_type = Some(page.type)]
        r2 == [r1 EXCEPT !.current_page_block_count = Some(page.block_count)]
        r3 == [r2 EXCEPT
                 !.current_page_subheaders_count = Some(page.subheader_count)]
    IN  IF bit_offset + 2 > page.len THEN Raise(r)
        ELSE IF bit_offset + 4 > page.len THEN Raise(r1)
        ELSE IF bit_offset + 6 > page.len THEN Raise(r2)
        ELSE r3

(***************************************************************************)
(* SAS7BDAT._read_next_page.  Reading a closed file is a ValueError.       *)
(***************************************************************************)
RECURSIVE ReadNextPage(_, _)

\* lines 622-626: a page that is not META, MIX or DATA is passed over
SkipPage(r3, pages) ==
    IF r3.exc = "" /\
       Val(r3.current_page_type) \notin
           ({PAGE_META_TYPE, PAGE_DATA_TYPE} \cup PAGE_MIX_TYPE)
    THEN ReadNextPage(r3, pages)
    ELSE r3

\* lines 620-621: the subheaders of a META page are processed
ProcessMetaPage(r2, pages) ==
    SkipPage(IF r2.exc = "" /\ Val(r2.current_page_type) = PAGE_META_TYPE
             THEN process_page_metadata(r2, pages) ELSE r2, pages)

\* lines 611-619 when file.read returned page n of the file (0: no byte)
CachePage(r0, n, pages) ==
    IF n = 0
    THEN [r0 EXCEPT !.cached_page = [tag |-> "empty", n |-> 0]]
    ELSE ProcessMetaPage(
             read_page_header(
                 [r0 EXCEPT
                    !.cached_page = [tag |-> "page", n |-> n],
                    !.file_pos = @ + 1,
                    !.log = IF pages[n].len # Val(r0.properties.page_length)
                            THEN @ \cup {"failed to read complete page"}
                            ELSE @], pages), pages)

\* ReadNextPage keeping the pointers of the page it leaves
ReadNextPageKeep(r, pages) ==
    IF ~r.file_open THEN [r EXCEPT !.exc = "ValueError"]
    ELSE CachePage(r, FileReadPage(r, pages), pages)

ReadNextPage(r, pages) ==
    IF ~r.file_open
    THEN [r EXCEPT !.current_page_data_subheader_pointers = << >>,
                   !.exc = "ValueError"]
    ELSE CachePage([r EXCEPT !.current_page_data_subheader_pointers = << >>],
                   FileReadPage(r, pages), pages)

(***************************************************************************)
(* SAS7BDAT.readlines: one resumption of the generator g on the reader r,  *)
(* up to its next yield, its end or an exception.  The result is the new   *)
(* reader, the new generator and the list yielded, if any.                 *)
(***************************************************************************)
\* a row of the reader as it is yielded
RowOf(res) ==
    [row_elements |-> res.row_elements, page |-> res.page,
     offset |-> res.offset, length |-> res.length,
     decompressed |-> res.decompressed, source_length |-> res.source_length,
     unknown |-> res.unknown]

\* MixRowOffset without the alignment correction
MixRowOffsetUnaligned(r, g) ==
    g.bit_offset + SUBHEADER_POINTERS_OFFSET +
    Val(r.current_page_subheaders_count) * g.subheader_pointer_length +
    r.current_row_on_page_index * r.properties.row_length

\* the offset of the row on a MIX page (lines 573-582)
MixRowOffset(r, g) ==
    LET align_correction ==
            (g.bit_offset + SUBHEADER_POINTERS_OFFSET +
             Val(r.current_page_subheaders_count) *
             g.subheader_pointer_length) % 8
    IN  g.bit_offset + SUBHEADER_POINTERS_OFFSET + align_correction +
        Val(r.current_page_subheaders_count) * g.subheader_pointer_length +
        r.current_row_on_page_index * r.properties.row_length

\* the offset of the row on a DATA page (lines 594-596)
DataRowOffset(r, g) ==
    g.bit_offset + SUBHEADER_POINTERS_OFFSET +
    r.current_row_on_page_index * r.properties.row_length

\* self._read_next_page(); self.current_row_on_page_index = 0
NextPage(r2) ==
    IF r2.exc # "" THEN r2 ELSE [r2 EXCEPT !.current_row_on_page_index = 0]

\* self.current_row = res, the row _process_byte_array_with_data returned
SetRow(r, res) ==
    IF res.exc # "" THEN [r EXCEPT !.exc = res.exc]
    ELSE [r EXCEPT !.current_row = RowOf(res)]

\* self.current_row = self._process_byte_array_with_data(offset, length)
ReadRow(r, offset, length, pages) ==
    SetRow(r, ProcessByteArrayWithData(r, offset, length,
                                       CachedBytes(r, pages)))

\* lines 558-571 on the reader r2 that holds the row of the data subheader:
\* the next page is read when the pointer was the last of the page
AfterMetaRow(r2, pages) ==
    IF r2.exc # "" THEN r2
    ELSE IF r2.current_row_on_page_index =
            Len(r2.current_page_data_subheader_pointers)
    THEN NextPage(ReadNextPage(r2, pages))
    ELSE r2

\* lines 584-591 and 598-603 on the reader r1 that holds the raw row: the
\* row index moves on and the next page is read after row number last
AfterRawRow(r1, last, pages) ==
    IF r1.exc # "" THEN r1
    ELSE IF r1.current_row_on_page_index + 1 = last
    THEN NextPage(ReadNextPage(
                      [r1 EXCEPT !.current_row_on_page_index = @ + 1], pages))
    ELSE [r1 EXCEPT !.current_row_on_page_index = @ + 1]

\* a raw row at offset, then the page advance when the page holds last rows
RawRow(r, offset, last, pages) ==
    AfterRawRow(ReadRow(r, offset, r.properties.row_length, pages),
                last, pages)

\* the body of the while loop after the test of line 544, to the yield
ReadlinesBody(r, g, pages) ==
    LET r0 == [r EXCEPT !.current_row_in_file_index = @ + 1]
        current_page_type == r0.current_page_type
        pointers == r0.current_page_data_subheader_pointers
    IN  IF current_page_type = Some(PAGE_META_TYPE)
        THEN IF r0.current_row_on_page_index >= Len(pointers)
             THEN \* except IndexError
                  NextPage(ReadNextPage(r0, pages))
             ELSE \* DataSubheader.process_subheader
                  AfterMetaRow(
                      ReadRow([r0 EXCEPT !.current_row_on_page_index = @ + 1],
                              pointers[r0.current_row_on_page_index + 1].offset,
                              pointers[r0.current_row_on_page_index + 1].length,
                              pages),
                      pages)
        ELSE IF current_page_type # None /\
                Val(current_page_type) \in PAGE_MIX_TYPE
        THEN RawRow(r0, MixRowOffset(r0, g),
                    Min(r0.properties.row_count,
                        r0.properties.mix_page_row_count), pages)
        ELSE IF current_page_type = Some(PAGE_DATA_TYPE)
        THEN RawRow(r0, DataRowOffset(r0, g),
                    Val(r0.current_page_block_count), pages)
        ELSE [r0 EXCEPT !.log = @ \cup {"unknown page type"}]

\* line 605: yield self.current_row, unless an exception left the loop
YieldRow(r1, g) ==
    IF r1.exc # ""
    THEN [r |-> r1, g |-> [g EXCEPT !.pc = "raised"], yield |-> None]
    ELSE [r |-> r1,
          g |-> [g EXCEPT !.pc = "rows", !.rows = @ + 1],
          yield |-> Some(r1.current_row)]

\* ReadlinesLoop with the test of line 544 turned into '>'
ReadlinesLoopLate(r, g, pages) ==
    IF r.exc # ""
    THEN [r |-> r, g |-> [g EXCEPT !.pc = "raised"], yield |-> None]
    ELSE IF r.current_row_in_file_index > g.row_count
    THEN [r |-> r, g |-> [g EXCEPT !.pc = "done"], yield |-> None]
    ELSE YieldRow(ReadlinesBody(r, g, pages), g)

\* ReadlinesLoop closing the file when the loop ends
ReadlinesLoopClosing(r, g, pages) ==
    IF r.exc # ""
    THEN [r |-> r, g |-> [g EXCEPT !.pc = "raised"], yield |-> None]
    ELSE IF r.current_row_in_file_index >= g.row_count
    THEN [r |-> [r EXCEPT !.file_open = FALSE],
          g |-> [g EXCEPT !.pc = "done"], yield |-> None]
    ELSE YieldRow(ReadlinesBody(r, g, pages), g)

\* ReadlinesLoop without the break of line 545: at the end of the rows the
\* generator stays alive and starts over
ReadlinesLoopSpin(r, g, pages) ==
    IF r.exc # ""
    THEN [r |-> r, g |-> [g EXCEPT !.pc = "raised"], yield |-> None]
    ELSE IF r.current_row_in_file_index >= g.row_count
    THEN [r |-> r,
          g |-> [g EXCEPT !.pc = IF @ = "rows" THEN "names" ELSE "rows"],
          yield |-> None]
    ELSE YieldRow(ReadlinesBody(r, g, pages), g)

\* the while loop from its test to the yield or the break; an exception
\* raised before the loop leaves the generator at once
ReadlinesLoop(r, g, pages) ==
    IF r.exc # ""
    THEN [r |-> r, g |-> [g EXCEPT !.pc = "raised"], yield |-> None]
    ELSE IF r.current_row_in_file_index >= g.row_count
    THEN [r |-> r, g |-> [g EXCEPT !.pc = "done"], yield |-> None]
    ELSE YieldRow(ReadlinesBody(r, g, pages), g)

\* lines 537-542: without a cached page the first page is read again
SeekFirstPage(r, pages) ==
    IF ~CachedPageFalsy(r) THEN r
    ELSE IF ~r.file_open THEN [r EXCEPT !.exc = "ValueError"]
    ELSE ReadNextPage([r EXCEPT !.file_pos = 0], pages)

\* ReadlinesResume with the row position kept by the iterator: a new
\* generator starts at row 0
ReadlinesResumeRewind(r, g, pages) ==
    IF g.pc = "new"
    THEN [r |-> [r EXCEPT !.current_row_in_file_index = 0],
          g |-> [g EXCEPT
                   !.pc = "names",
                   !.bit_offset = PAGE_BIT_OFFSET(r),
                   !.subheader_pointer_length = SUBHEADER_POINTER_LENGTH(r),
                   !.row_count = r.properties.row_count,
                   !.names = Some([k \in 1..Len(r.columns) |->
                                       r.columns[k].name])],
          yield |-> None]
    ELSE ReadlinesLoop(IF g.pc = "names" THEN SeekFirstPage(r, pages) ELSE r,
                       g, pages)

\* next(g)
ReadlinesResume(r, g, pages) ==
    IF g.pc = "new"
    THEN [r |-> r,
          g |-> [g EXCEPT
                   !.pc = "names",
                   !.bit_offset = PAGE_BIT_OFFSET(r),
                   !.subheader_pointer_length = SUBHEADER_POINTER_LENGTH(r),
                   !.row_count = r.properties.row_count,
                   !.names = Some([k \in 1..Len(r.columns) |->
                                       r.columns[k].name])],
          yield |-> None]
    ELSE ReadlinesLoop(IF g.pc = "names" THEN SeekFirstPage(r, pages) ELSE r,
                       g, pages)


(***************************************************************************)
(* SASHeader.__init__ on the freshly initialised reader r.  hdr.size is    *)
(* the number of bytes the file holds before its first page.               *)
(***************************************************************************)
SASHeaderInit(r, hdr) ==
    LET first == Min(HEADER_READ, hdr.size)
        r0 == [r EXCEPT !.cached_page = [tag |-> "header", n |-> first]]
        u64 == hdr.byte32 = "3"
        endianess == IF hdr.byte37 = 1 THEN "little" ELSE "big"
        r1 == [r0 EXCEPT
                 !.properties.u64 = u64,
                 !.properties.endianess = Some(endianess),
                 !.endianess = endianess,
                 !.properties.platform =
                     Some(IF hdr.byte39 = "1" THEN "unix"
                          ELSE IF hdr.byte39 = "2" THEN "windows"
                          ELSE "unknown"),
                 !.properties.header_length = Some(hdr.header_length)]
        \* parent.cached_page += parent._file.read(header_length - 288)
        whole == Min(hdr.header_length, hdr.size)
        r2 == [r1 EXCEPT !.cached_page = [tag |-> "header", n |-> whole]]
    IN  IF first < HEADER_READ
        THEN [r0 EXCEPT
                !.log = @ \cup {"header too short (not a sas7bdat file?)"}]
        ELSE IF ~hdr.magic
        THEN [r0 EXCEPT !.log = @ \cup {"magic number mismatch"}]
        ELSE IF u64 /\ hdr.header_length # U64_HEADER_LENGTH
        THEN [r1 EXCEPT !.exc = "AssertionError"]
        ELSE IF whole # hdr.header_length
        THEN [r2 EXCEPT
                !.log = @ \cup {"header too short (not a sas7bdat file?)"}]
        ELSE [r2 EXCEPT
                !.properties.page_length = Some(hdr.page_length),
                !.properties.page_count = Some(hdr.page_count),
                !.u64 = u64]

\* SASHeader.process_page_meta: the reader and the value returned
\* lines 1390-1391: the value process_page_meta returns
ReturnPageMeta(r2) ==
    [r |-> r2,
     done |-> r2.exc = "" /\
              (\/ Val(r2.current_page_type) \in PAGE_MIX_DATA_TYPE
               \/ r2.current_page_data_subheader_pointers # << >>)]

\* lines 1388-1389 on the reader r1 whose page header is read
ProcessMetaMixAmd(r1, pages) ==
    ReturnPageMeta(
        IF r1.exc = "" /\ Val(r1.current_page_type) \in PAGE_META_MIX_AMD
        THEN process_page_metadata(r1, pages) ELSE r1)

process_page_meta(r, pages) ==
    ProcessMetaMixAmd(read_page_header(r, pages), pages)

\* SASHeader.parse_metadata.  file.read(None) is a TypeError in Python 2,
\* the only interpreter that accepts this source.
RECURSIVE parse_metadata(_, _)

\* lines 1352 and 1362: the loop ends on the first page with rows
UntilDone(m, pages) ==
    IF m.r.exc # "" \/ m.done THEN m.r ELSE parse_metadata(m.r, pages)

\* lines 1356-1362 when file.read returned page n of the file (0: no byte)
MetaPage(r, n, pages) ==
    IF n = 0 THEN [r EXCEPT !.cached_page = [tag |-> "empty", n |-> 0]]
    ELSE UntilDone(
             process_page_meta(
                 [r EXCEPT
                    !.cached_page = [tag |-> "page", n |-> n],
                    !.file_pos = @ + 1,
                    !.log = IF pages[n].len # Val(r.properties.page_length)
                            THEN @ \cup
                                 {"Failed to read a meta data page from file"}
                            ELSE @], pages), pages)

parse_metadata(r, pages) ==
    IF r.properties.page_length = None THEN [r EXCEPT !.exc = "TypeError"]
    ELSE MetaPage(r, FileReadPage(r, pages), pages)

\* SASProperties.__init__
InitProperties ==
    [u64 |-> FALSE, endianess |-> None, platform |-> None,
     header_length |-> None, page_length |-> None, page_count |-> None,
     compression |-> None, row_length |-> 0, row_count |-> 0,
     mix_page_row_count |-> 0, column_count |-> 0]

\* the row before any row was read: self.current_row = []
NoRow ==
    [row_elements |-> << >>, page |-> [tag |-> "none", n |-> 0],
     offset |-> 0, length |-> 0, decompressed |-> FALSE,
     source_length |-> 0, unknown |-> FALSE]

\* the fields SAS7BDAT.__init__ assigns before it builds the header
InitReader ==
    [endianess |-> "None", u64 |-> FALSE,
     file_open |-> FALSE, file_pos |-> 0,
     cached_page |-> [tag |-> "none", n |-> 0],
     current_page_type |-> None,
     current_page_block_count |-> None,
     current_page_subheaders_count |-> None,
     current_column_number |-> 0,
     current_row_in_file_index |-> 0,
     current_row_on_page_index |-> 0,
     current_page_data_subheader_pointers |-> << >>,
     current_row |-> NoRow,
     column_names_strings |-> << >>,
     column_names |-> << >>,
     column_types |-> << >>,
     column_data_offsets |-> << >>,
     column_data_lengths |-> << >>,
     columns |-> << >>,
     properties |-> InitProperties,
     log |-> {},
     exc |-> ""]

\* SAS7BDAT._update_format_strings(var, format_strings): the new value of
\* the set var and the exception raised.  format_strings.kind is "none"
\* for None, "strings" for a string or a set, list or tuple of strings,
\* "other" for a value of any other type.
UpdateFormatStrings(var, format_strings) ==
    [var |-> IF format_strings.kind = "strings"
             THEN var \cup format_strings.strings ELSE var,
     exc |-> IF format_strings.kind = "other" THEN "NotImplementedError"
             ELSE ""]


(***************************************************************************)
(* The arguments of the constructor.                                       *)
(***************************************************************************)
NoStrings == [kind |-> "none", strings |-> {}]
Strings(S) == [kind |-> "strings", strings |-> S]
NotStrings == [kind |-> "other", strings |-> {}]

\* the constructor's arguments: no extras; the extra date format FMT at
\* log level DEBUG; an extra date-time format that is not a string
Args(a, n) ==
    CASE a = "none" -> [time |-> NoStrings, date_time |-> NoStrings,
                        date |-> NoStrings, debug |-> FALSE,
                        iterators |-> n]
      [] a = "debug" -> [time |-> NoStrings, date_time |-> NoStrings,
                         date |-> Strings({sFMT}), debug |-> TRUE,
                         iterators |-> n]
      [] a = "other" -> [time |-> NoStrings, date_time |-> NotStrings,
                         date |-> Strings({sFMT}), debug |-> FALSE,
                         iterators |-> n]

ArgChoices == {"none", "debug", "other"}

NoConversion ==
    [state |-> "idle", g |-> 0, success |-> TRUE, i |-> 0, written |-> 0,
     mismatch |-> FALSE, io_error |-> FALSE, result |-> None, exc |-> ""]

\* no row slice: the value of row in Spec
NoSlice ==
    [stage |-> "none", page |-> << >>, length |-> 0, result |-> << >>,
     raised |-> FALSE, unknown |-> FALSE, cells |-> 0, exc |-> ""]

\* The caller obtains args.iterators generators from the reader, counting
\* the one convert_file obtains.  It shares the reader of the one-page RLE
\* file between several generators, and uses one generator on any other
\* file.
Init ==
    /\ \E h \in GoodHeaders \cup BadHeaders, v \in Schemas, n \in 0..MaxPages,
          a \in ArgChoices, it \in 1..MaxIters :
         \E kinds \in [1..n -> PageKinds] :
            /\ CutOnlyLast(kinds)
            /\ h \in BadHeaders => v = "rle" /\ n = 0 /\ a = "none"
            /\ it > 1 => h = "x86" /\ v = "rle" /\ n = 0 /\ a = "none"
            /\ h = "x64" => v # "rle"
            /\ file = MakeFile(h, v, kinds)
            /\ args = Args(a, it)
    /\ rd = InitReader
    /\ phase = "new"
    /\ gens = << >>
    /\ conv = NoConversion
    /\ emitted = << >>
    /\ short_read = None
    /\ row = NoSlice
    /\ TIME_FORMAT_STRINGS = DefaultTimeFormats
    /\ DATE_TIME_FORMAT_STRINGS = DefaultDateTimeFormats
    /\ DATE_FORMAT_STRINGS = DefaultDateFormats

(***************************************************************************)
(* SAS7BDAT.__init__, lines 373-405: the class attributes are updated with *)
(* the extras, the file is opened, the fields are initialised and the      *)
(* header is read.                                                         *)
(***************************************************************************)
Construct ==
    /\ phase = "new"
    /\ LET t == UpdateFormatStrings(TIME_FORMAT_STRINGS, args.time)
           dt == UpdateFormatStrings(DATE_TIME_FORMAT_STRINGS, args.date_time)
           d == UpdateFormatStrings(DATE_FORMAT_STRINGS, args.date)
           exc == IF t.exc # "" THEN t.exc
                  ELSE IF dt.exc # "" THEN dt.exc ELSE d.exc
           r == SASHeaderInit([InitReader EXCEPT !.file_open = TRUE],
                              FileHdr)
       IN  /\ TIME_FORMAT_STRINGS' = t.var
           /\ DATE_TIME_FORMAT_STRINGS' =
                  IF t.exc = "" THEN dt.var ELSE DATE_TIME_FORMAT_STRINGS
           /\ DATE_FORMAT_STRINGS' =
                  IF t.exc = "" /\ dt.exc = "" THEN d.var
                  ELSE DATE_FORMAT_STRINGS
           /\ rd' = IF exc # "" THEN [rd EXCEPT !.exc = exc] ELSE r
           /\ phase' = IF exc # "" \/ r.exc # "" THEN "failed" ELSE "header"
    /\ UNCHANGED <<file, args, gens, conv, emitted, short_read, row>>

(***************************************************************************)
(* SAS7BDAT.__init__, lines 406-408: the metadata traversal.               *)
(***************************************************************************)
ParseMetadata ==
    /\ phase = "header"
    /\ rd' = parse_metadata(rd, FilePages)
    /\ phase' = IF rd'.exc # "" THEN "failed" ELSE "ready"
    /\ UNCHANGED <<file, args, gens, conv, emitted, short_read, row,
                   TIME_FORMAT_STRINGS, DATE_TIME_FORMAT_STRINGS,
                   DATE_FORMAT_STRINGS>>

\* no call of the reader is running
Idle == phase = "ready" /\ conv.state # "running"

NewGenerator ==
    [pc |-> "new", bit_offset |-> 0, subheader_pointer_length |-> 0,
     row_count |-> 0, rows |-> 0, names |-> None, exc |-> ""]

\* SAS7BDAT.__iter__ / readlines(): a generator that has not started
Iter ==
    /\ Idle
    /\ Len(gens) < args.iterators
    /\ gens' = Append(gens, NewGenerator)
    /\ UNCHANGED <<file, args, rd, phase, conv, emitted, short_read,
                   row, TIME_FORMAT_STRINGS, DATE_TIME_FORMAT_STRINGS,
                   DATE_FORMAT_STRINGS>>

\* a read during the resumption from r to r1 came short of page_length
ShortRead(r, r1, pages) ==
    \/ r1.cached_page.tag = "empty" /\ r.cached_page.tag # "empty"
    \/ /\ r1.file_pos > r.file_pos
       /\ pages[r1.file_pos].len # Val(r1.properties.page_length)

\* the effect of next(gens[i]) on the reader, the generator and the ghosts
Resume(i, res, pages) ==
    /\ rd' = [res.r EXCEPT !.exc = ""]
    /\ gens' = [gens EXCEPT ![i] = [res.g EXCEPT !.exc = res.r.exc]]
    /\ emitted' = IF res.yield # None
                  THEN Append(emitted, Val(res.yield))
                  ELSE emitted
    /\ short_read' = IF short_read = None /\ ShortRead(rd, res.r, pages)
                     THEN Some(Len(emitted'))
                     ELSE short_read

\* next(g) by the caller
IterNext(i) ==
    /\ Idle
    /\ gens[i].pc \in {"new", "names", "rows"}
    /\ Resume(i, ReadlinesResume(rd, gens[i], FilePages), FilePages)
    /\ UNCHANGED <<file, args, phase, conv, row,
                   TIME_FORMAT_STRINGS, DATE_TIME_FORMAT_STRINGS,
                   DATE_FORMAT_STRINGS>>

\* SAS7BDAT.close, also by __exit__
Close ==
    /\ Idle
    /\ rd.file_open
    /\ rd' = [rd EXCEPT !.file_open = FALSE]
    /\ UNCHANGED <<file, args, phase, gens, conv, emitted, short_read,
                   row, TIME_FORMAT_STRINGS, DATE_TIME_FORMAT_STRINGS,
                   DATE_FORMAT_STRINGS>>

(***************************************************************************)
(* The constructor of another reader, on another file, with the extra      *)
(* time format FMT: lines 379-387 as they act on the class attributes.     *)
(* The constructor is not interleaved with a call of this reader, only     *)
(* with the resumptions of its generators.                                 *)
(***************************************************************************)
OtherReader ==
    /\ phase \in {"new", "ready"}
    /\ conv.state # "running"
    /\ TIME_FORMAT_STRINGS' =
           UpdateFormatStrings(TIME_FORMAT_STRINGS, Strings({sFMT})).var
    /\ DATE_TIME_FORMAT_STRINGS' =
           UpdateFormatStrings(DATE_TIME_FORMAT_STRINGS, NoStrings).var
    /\ DATE_FORMAT_STRINGS' =
           UpdateFormatStrings(DATE_FORMAT_STRINGS, NoStrings).var
    /\ UNCHANGED <<file, args, rd, phase, gens, conv, emitted, short_read,
                   row>>

(***************************************************************************)
(* SAS7BDAT.convert_file.  ConvertStart is the call up to the loop         *)
(* (lines 689-698), ConvertStep one turn of the loop (lines 699-717) and,  *)
(* when the loop ends, the rest of the call (lines 718-725).               *)
(***************************************************************************)
ConvertStart(opened) ==
    /\ Idle
    /\ conv.state = "idle"
    /\ Len(gens) < args.iterators
    /\ IF opened
       THEN /\ gens' = Append(gens, NewGenerator)
            /\ conv' = [conv EXCEPT !.state = "running", !.g = Len(gens) + 1]
       ELSE /\ gens' = gens
            /\ conv' = [conv EXCEPT !.state = "raised", !.exc = "IOError"]
    /\ UNCHANGED <<file, args, rd, phase, emitted, short_read, row,
                   TIME_FORMAT_STRINGS, DATE_TIME_FORMAT_STRINGS,
                   DATE_FORMAT_STRINGS>>

\* len(line) of the line the resumption res of the generator g yielded
LineLength(g, res) ==
    IF g.pc = "new" THEN Len(Val(res.g.names))
    ELSE Len(Val(res.yield).row_elements)

\* the activation after the turn of the loop in which the generator g was
\* resumed with result res and writerow did or did not raise IOError
ConvertTurn(c, g, res, debug, io_error) ==
    IF res.r.exc # ""
    THEN [c EXCEPT !.state = "raised", !.exc = res.r.exc]
    ELSE IF res.g.pc = "done"
    THEN [c EXCEPT !.state = "returned", !.result = Some(c.success)]
    ELSE IF LineLength(g, res) # res.r.properties.column_count
    THEN IF debug
         THEN [c EXCEPT !.i = @ + 1, !.success = FALSE, !.mismatch = TRUE,
                        !.state = "raised", !.exc = "ParseError"]
         ELSE [c EXCEPT !.i = @ + 1, !.success = FALSE, !.mismatch = TRUE,
                        !.state = "returned", !.result = Some(FALSE)]
    ELSE IF io_error
    THEN [c EXCEPT !.i = @ + 1, !.io_error = TRUE,
                   !.state = "returned", !.result = Some(c.success)]
    ELSE [c EXCEPT !.i = @ + 1, !.written = @ + 1]

\* the turn of the loop whose resumption of the generator gave res
ConvertResume(res, io_error, pages) ==
    /\ Resume(conv.g, res, pages)
    /\ conv' = ConvertTurn(conv, gens[conv.g], res, args.debug, io_error)

ConvertStep(io_error) ==
    /\ phase = "ready"
    /\ conv.state = "running"
    /\ ConvertResume(ReadlinesResume(rd, gens[conv.g], FilePages), io_error,
                     FilePages)
    /\ UNCHANGED <<file, args, phase, row,
                   TIME_FORMAT_STRINGS, DATE_TIME_FORMAT_STRINGS,
                   DATE_FORMAT_STRINGS>>

Next ==
    \/ Construct
    \/ ParseMetadata
    \/ Iter
    \/ \E i \in 1..Len(gens) : IterNext(i)
    \/ Close
    \/ OtherReader
    \/ \E opened \in BOOLEAN : ConvertStart(opened)
    \/ \E io_error \in BOOLEAN : ConvertStep(io_error)

Spec == Init /\ [][Next]_vars

(***************************************************************************)
(* The reader on files whose first page differs from the standard pointer  *)
(* table in one respect: a row-size, column-size or format-and-label       *)
(* subheader is missing or is there twice, the table has one more pointer, *)
(* or one text reference is out of range; and on standard files whose      *)
(* header names a platform that byte 32 does not go with.  The caller is   *)
(* the same.                                                               *)
(***************************************************************************)
Layouts ==
    {StandardLayout} \cup
    {[StandardLayout EXCEPT !.row_size = n] : n \in {0, 2}} \cup
    {[StandardLayout EXCEPT !.column_size = n] : n \in {0, 2}} \cup
    {[StandardLayout EXCEPT !.format_and_label = n] : n \in {0, 1}} \cup
    {[StandardLayout EXCEPT !.extra = e] :
         e \in {"len0", "trunc", "trunc0", "len0data"}} \cup
    {[StandardLayout EXCEPT !.text = t] :
         t \in {"name_idx", "format_idx", "label_idx",
                "name_neg", "format_neg", "label_neg"}}

\* the pages that follow the first
MetaKinds == {<< >>, <<"mix">>, <<"data2">>, <<"data2", "mix">>}

InitMeta ==
    /\ \E h \in GoodHeaders \cup MixedHeaders, v \in Schemas,
          layout \in Layouts, kinds \in MetaKinds :
         /\ h \in MixedHeaders => layout = StandardLayout
         /\ file = [MakeFile(h, v, kinds) EXCEPT !.layout = layout]
    /\ args = Args("none", 1)
    /\ rd = InitReader
    /\ phase = "new"
    /\ gens = << >>
    /\ conv = NoConversion
    /\ emitted = << >>
    /\ short_read = None
    /\ row = NoSlice
    /\ TIME_FORMAT_STRINGS = DefaultTimeFormats
    /\ DATE_TIME_FORMAT_STRINGS = DefaultDateTimeFormats
    /\ DATE_FORMAT_STRINGS = DefaultDateFormats

SpecMeta == InitMeta /\ [][Next]_vars


(***************************************************************************)
(* The row level.  SpecRow hands one compressed slice, at offset 0 of a    *)
(* page that may go on after it, to the decompressor of the dataset and    *)
(* to the row projector.  The slices are all the strings of at most        *)
(* MaxSlice bytes over the bytes below: for RLE an unknown control byte    *)
(* (0x10), 'A', 0x7B, a one byte copy (0x80), 0xC9 and five zeros (0xF3);  *)
(* for RDC the prefix bytes 0x00 and 0x80, the short run 0x02, the         *)
(* unknown marker 0x07, the two byte marker 0x30 and 'A'.                  *)
(***************************************************************************)
RowBytes(compression) ==
    IF compression = RLE_COMPRESSION THEN {16, 65, 123, 128, 201, 243}
    ELSE {0, 128, 2, 7, 48, 65}

Slices(compression) ==
    UNION {[1..n -> RowBytes(compression)] : n \in 0..MaxSlice}

\* row_length and the length of column y of the dataset the slice is of
RowSchemas ==
    {[row_length |-> 5, y |-> 3], [row_length |-> 5, y |-> 0],
     [row_length |-> 20, y |-> 3]}

\* the reader of a little-endian dataset with the columns x and y once it
\* is constructed
RowReader(compression, sc) ==
    [InitReader EXCEPT
       !.file_open = TRUE,
       !.endianess = "little",
       !.properties.endianess = Some("little"),
       !.properties.compression = compression,
       !.properties.row_length = sc.row_length,
       !.properties.row_count = 1,
       !.properties.column_count = 2,
       !.column_names = << <<"x">>, <<"y">> >>,
       !.column_types = <<"string", "number">>,
       !.column_data_offsets = <<0, 2>>,
       !.column_data_lengths = <<2, sc.y>>,
       !.current_column_number = 2,
       !.columns =
           << [col_id |-> 0, name |-> <<"x">>, label |-> << >>,
               format |-> << >>, type |-> "string", length |-> 2],
              [col_id |-> 1, name |-> <<"y">>, label |-> << >>,
               format |-> << >>, type |-> "number", length |-> sc.y] >>]

\* the k-th literal byte of a stream of literal copies: 'A', a byte that
\* reads as the command 0x80 and one that reads as an unknown control byte
Literal(k) == IF k % 3 = 1 THEN 65 ELSE IF k % 3 = 2 THEN 128 ELSE 16

\* the commands cmds, each <<opcode, n1>>, with the bytes they announce;
\* the literals are numbered from k + 1
RECURSIVE LiteralStream(_, _)
LiteralStream(cmds, k) ==
    IF cmds = << >> THEN << >>
    ELSE LET op == Head(cmds)[1]
             n1 == Head(cmds)[2]
             count == n1 + 1 + 16 * (op - 8)
         IN  <<op * 16 + n1>> \o [j \in 1..count |-> Literal(k + j)] \o
             LiteralStream(Tail(cmds), k + count)

\* streams of literal copies that announce row_length bytes in all
LiteralCommands(row_length) ==
    CASE row_length = 5 ->
           {<< <<8, 4>> >>, << <<8, 0>>, <<8, 3>> >>,
            << <<8, 1>>, <<8, 0>>, <<8, 1>> >>}
      [] row_length = 20 ->
           {<< <<9, 3>> >>, << <<9, 0>>, <<8, 2>> >>,
            << <<8, 1>>, <<9, 1>> >>, << <<8, 15>>, <<8, 3>> >>}
      [] row_length = 33 -> {<< <<10, 0>> >>, << <<9, 15>>, <<8, 0>> >>}
      [] row_length = 50 -> {<< <<11, 1>> >>, << <<10, 15>>, <<8, 1>> >>}

\* the datasets whose rows are stored as literal copies
LiteralSchemas ==
    {[row_length |-> 5, y |-> 3], [row_length |-> 20, y |-> 3],
     [row_length |-> 33, y |-> 3], [row_length |-> 50, y |-> 3]}

\* the datasets whose number column y is 1 or 2 bytes long, and their rows
\* as they are stored when compression does not shorten them: the two
\* bytes of x, then y and padding
ShortSchemas == {[row_length |-> 4, y |-> 2], [row_length |-> 3, y |-> 1]}

ShortRows == {<<65, 66, lo, hi>> : lo \in {0, 1, 255}, hi \in {0, 128, 255}}

\* RDC slices with the unknown marker 0x07 as the first item and two or
\* three bytes after it
UnknownMarkerRows ==
    {<<128, 0, 7>> \o rest : rest \in [1..2 -> {0, 65}] \cup [1..3 -> {0, 65}]}

\* RLE slices with the command 0x0n, and the bytes of the page after the
\* slice
LongCopyRows == {<<0, 0>>, <<0, 0, 65>>, <<1, 0>>, <<128, 65, 0, 0>>}

PageTails == {<< >>, <<65>>, <<65, 66>>}

\* RDC slices whose first item is a marker with the first byte 0x06, 0x08
\* or 0x0A, followed by a byte with different or with equal nibbles
OneByteRows == {<<128, 0, m, n>> : m \in {6, 8, 10}, n \in {65, 68}}

InitRow ==
    /\ \/ \E compression \in {RLE_COMPRESSION, RDC_COMPRESSION},
             sc \in RowSchemas, tail \in {<< >>, <<65>>} :
            \E slice \in Slices(compression) :
               /\ rd = RowReader(compression, sc)
               /\ row = [NoSlice EXCEPT !.stage = "slice",
                                        !.page = slice \o tail,
                                        !.length = Len(slice)]
       \/ \E sc \in LiteralSchemas, tail \in {<< >>, <<65>>} :
            \E cmds \in LiteralCommands(sc.row_length) :
               /\ rd = RowReader(RLE_COMPRESSION, sc)
               /\ row = [NoSlice EXCEPT
                           !.stage = "slice",
                           !.page = LiteralStream(cmds, 0) \o tail,
                           !.length = Len(LiteralStream(cmds, 0))]
       \/ \E sc \in ShortSchemas, fmt \in {<< >>, sDATE, sFMT} :
            \E slice \in ShortRows :
               /\ rd = [RowReader(RLE_COMPRESSION, sc) EXCEPT
                          !.columns[2].format = fmt]
               /\ row = [NoSlice EXCEPT !.stage = "slice",
                                        !.page = slice,
                                        !.length = Len(slice)]
       \/ \E slice \in LongCopyRows, tail \in PageTails :
            /\ rd = RowReader(RLE_COMPRESSION, [row_length |-> 5, y |-> 3])
            /\ row = [NoSlice EXCEPT !.stage = "slice",
                                     !.page = slice \o tail,
                                     !.length = Len(slice)]
       \/ \E slice \in UnknownMarkerRows \cup OneByteRows :
            /\ rd = RowReader(RDC_COMPRESSION, [row_length |-> 5, y |-> 3])
            /\ row = [NoSlice EXCEPT !.stage = "slice",
                                     !.page = slice,
                                     !.length = Len(slice)]
    /\ file = MakeFile("x86", "rle", << >>)
    /\ args = Args("none", 1)
    /\ phase = "row"
    /\ gens = << >>
    /\ conv = NoConversion
    /\ emitted = << >>
    /\ short_read = None
    /\ TIME_FORMAT_STRINGS = DefaultTimeFormats
    /\ DATE_TIME_FORMAT_STRINGS = DefaultDateTimeFormats
    /\ DATE_FORMAT_STRINGS = DefaultDateFormats

\* the slice once the decompressor returned d
Returned(d) ==
    [row EXCEPT !.stage = "decompressed",
                !.result = IF d.raised THEN << >> ELSE d.result,
                !.raised = d.raised,
                !.unknown = d.unknown]

\* decompress_row of the dataset's decompressor on the slice
DecompressRow ==
    /\ row.stage = "slice"
    /\ row' = Returned(Decompress(rd.properties.compression, 0, row.length,
                                  rd.properties.row_length, row.page))
    /\ UNCHANGED <<file, args, rd, phase, gens, conv, emitted, short_read,
                   TIME_FORMAT_STRINGS, DATE_TIME_FORMAT_STRINGS,
                   DATE_FORMAT_STRINGS>>

\* the slice and the reader once the projector returned res
Projected(res) ==
    /\ row' = [row EXCEPT !.stage = "projected",
                          !.cells = Len(res.row_elements),
                          !.exc = res.exc,
                          !.raised = res.raised,
                          !.unknown = res.unknown]
    /\ rd' = IF res.exc = "" THEN [rd EXCEPT !.current_row = RowOf(res)]
             ELSE rd

\* _process_byte_array_with_data on the slice
ProjectRow ==
    /\ row.stage = "slice"
    /\ Projected(ProcessByteArrayWithData(rd, 0, row.length, row.page))
    /\ UNCHANGED <<file, args, phase, gens, conv, emitted, short_read,
                   TIME_FORMAT_STRINGS, DATE_TIME_FORMAT_STRINGS,
                   DATE_FORMAT_STRINGS>>

NextRow == DecompressRow \/ ProjectRow

SpecRow == InitRow /\ [][NextRow]_vars

(***************************************************************************)
(* The offset of a row on a MIX page, for a reader of either word width    *)
(* that stands before row 0 or row 1 of a MIX page with any subheader      *)
(* count the 'h' field of the page header can hold.                        *)
(***************************************************************************)
MixReader(u64, count, index) ==
    [InitReader EXCEPT
       !.file_open = TRUE,
       !.u64 = u64,
       !.properties.u64 = u64,
       !.properties.row_length = 5,
       !.properties.row_count = 2,
       !.properties.mix_page_row_count = 2,
       !.current_page_type = Some(512),
       !.current_page_block_count = Some(0),
       !.current_page_subheaders_count = Some(count),
       !.current_row_on_page_index = index]

\* the generator of readlines once it has yielded the column names
MixGenerator(r) ==
    [NewGenerator EXCEPT
       !.pc = "names",
       !.bit_offset = PAGE_BIT_OFFSET(r),
       !.subheader_pointer_length = SUBHEADER_POINTER_LENGTH(r),
       !.row_count = r.properties.row_count]

InitMix ==
    /\ \E u64 \in BOOLEAN, count \in -32768..32767, index \in {0, 1} :
         /\ rd = MixReader(u64, count, index)
         /\ gens = <<MixGenerator(MixReader(u64, count, index))>>
    /\ row = [stage |-> "mix", offset |-> 0]
    /\ file = MakeFile("x86", "plain", <<"mix">>)
    /\ args = Args("none", 1)
    /\ phase = "row"
    /\ conv = NoConversion
    /\ emitted = << >>
    /\ short_read = None
    /\ TIME_FORMAT_STRINGS = DefaultTimeFormats
    /\ DATE_TIME_FORMAT_STRINGS = DefaultDateTimeFormats
    /\ DATE_FORMAT_STRINGS = DefaultDateFormats

\* lines 573-582: the first argument of _process_byte_array_with_data
MixBase ==
    /\ row.stage = "mix"
    /\ row' = [stage |-> "base", offset |-> MixRowOffset(rd, gens[1])]
    /\ UNCHANGED <<file, args, rd, phase, gens, conv, emitted, short_read,
                   TIME_FORMAT_STRINGS, DATE_TIME_FORMAT_STRINGS,
                   DATE_FORMAT_STRINGS>>

SpecMix == InitMix /\ [][MixBase]_vars

(***************************************************************************)
(* _process_byte_array_with_data on a row slice at an offset of the cached *)
(* page, on datasets with and without compression: slices shorter than,    *)
(* as long as and longer than the row of 5 bytes.                          *)
(***************************************************************************)
\* 5 bytes 'A' compressed (RLE, RDC), a stream of 5 literals, and raw rows
\* of 3, 5 and 6 bytes
SourceSlices ==
    {<<194, 65>>, <<128, 0, 2, 65>>, <<132, 70, 71, 72, 73, 74>>,
     <<70, 71, 72>>, <<70, 71, 72, 73, 74>>, <<70, 71, 72, 73, 74, 75>>}

\* the bytes of the page before and after the slice
SourcePads == {<< >>, <<88>>, <<88, 89>>}

InitSource ==
    /\ \E compression \in {None, RLE_COMPRESSION, RDC_COMPRESSION},
          slice \in SourceSlices, before \in SourcePads,
          after \in SourcePads :
         /\ rd = RowReader(compression, [row_length |-> 5, y |-> 3])
         /\ row = [stage |-> "slice", page |-> before \o slice \o after,
                   offset |-> Len(before), length |-> Len(slice), exc |-> ""]
    /\ file = MakeFile("x86", "rle", << >>)
    /\ args = Args("none", 1)
    /\ phase = "row"
    /\ gens = << >>
    /\ conv = NoConversion
    /\ emitted = << >>
    /\ short_read = None
    /\ TIME_FORMAT_STRINGS = DefaultTimeFormats
    /\ DATE_TIME_FORMAT_STRINGS = DefaultDateTimeFormats
    /\ DATE_FORMAT_STRINGS = DefaultDateFormats

\* self.current_row = self._process_byte_array_with_data(offset, length)
ProjectAt ==
    /\ row.stage = "slice"
    /\ LET r1 == SetRow(rd, ProcessByteArrayWithData(rd, row.offset,
                                                     row.length, row.page))
       IN  /\ rd' = [r1 EXCEPT !.exc = ""]
           /\ row' = [row EXCEPT !.stage = "projected", !.exc = r1.exc]
    /\ UNCHANGED <<file, args, phase, gens, conv, emitted, short_read,
                   TIME_FORMAT_STRINGS, DATE_TIME_FORMAT_STRINGS,
                   DATE_FORMAT_STRINGS>>

SpecSource == InitSource /\ [][ProjectAt]_vars

(***************************************************************************)
(* RDCDecompressor.decompress_row pass by pass of its while loop, on the   *)
(* slices of SpecRow and on slices long enough for a prefix to govern 16   *)
(* items.                                                                  *)
(***************************************************************************)
\* a prefix of 16 literals and one more prefix; a prefix of 16 short RLE
\* markers; 16 literals and a byte no prefix is left for
LongRDCRows ==
    {<<0, 0>> \o [k \in 1..16 |-> 65] \o <<0, 0, 66>>,
     <<255, 255>> \o [k \in 1..32 |-> IF k % 2 = 1 THEN 0 ELSE 65] \o
         <<0, 0, 66>>,
     <<0, 0>> \o [k \in 1..17 |-> 65]}

InitRDC ==
    /\ \E slice \in Slices(RDC_COMPRESSION) \cup UnknownMarkerRows \cup
                     OneByteRows \cup LongRDCRows :
         row = [stage |-> "loop", src_row |-> slice, st |-> RDCStart(5)]
    /\ rd = RowReader(RDC_COMPRESSION, [row_length |-> 5, y |-> 3])
    /\ file = MakeFile("x86", "rdc", << >>)
    /\ args = Args("none", 1)
    /\ phase = "row"
    /\ gens = << >>
    /\ conv = NoConversion
    /\ emitted = << >>
    /\ short_read = None
    /\ TIME_FORMAT_STRINGS = DefaultTimeFormats
    /\ DATE_TIME_FORMAT_STRINGS = DefaultDateTimeFormats
    /\ DATE_FORMAT_STRINGS = DefaultDateFormats

\* lines 238-331: one pass of the while loop
RDCStep ==
    /\ row.stage = "loop"
    /\ RDCRunning(row.st, row.src_row)
    /\ row' = [row EXCEPT !.st = RDCPrefix(row.st, row.src_row)]
    /\ UNCHANGED <<file, args, rd, phase, gens, conv, emitted, short_read,
                   TIME_FORMAT_STRINGS, DATE_TIME_FORMAT_STRINGS,
                   DATE_FORMAT_STRINGS>>

\* lines 237 and 332: the test fails, or an exception left the loop
RDCEnd ==
    /\ row.stage = "loop"
    /\ ~RDCRunning(row.st, row.src_row)
    /\ row' = [row EXCEPT !.stage = "returned"]
    /\ UNCHANGED <<file, args, rd, phase, gens, conv, emitted, short_read,
                   TIME_FORMAT_STRINGS, DATE_TIME_FORMAT_STRINGS,
                   DATE_FORMAT_STRINGS>>

NextRDC == RDCStep \/ RDCEnd

\* the call runs on: weak fairness of NextRDC, WF_vars(NextRDC), with its
\* ENABLED written as row.stage = "loop"
SpecRDC ==
    /\ InitRDC
    /\ [][NextRDC]_vars
    /\ (<>[](row.stage = "loop") => []<><<NextRDC>>_vars)

(***************************************************************************)
(* The reader under a caller that iterates to the end: it constructs the   *)
(* reader with default arguments, obtains its generators and resumes every *)
(* generator that can be resumed.                                          *)
(***************************************************************************)
InitLive ==
    /\ Init
    /\ args.time = NoStrings /\ args.date_time = NoStrings
    /\ args.date = NoStrings /\ ~args.debug

NextLive ==
    \/ Construct
    \/ ParseMetadata
    \/ Iter
    \/ \E i \in 1..Len(gens) : IterNext(i)

\* the caller resumes its i-th generator
Resumed(i) == i <= Len(gens) /\ IterNext(i)

\* Resumed(i) is enabled: next(g) returns a list, ends the generator or
\* raises, and each of these changes the generator
CanResume(i) ==
    i <= Len(gens) /\ Idle /\ gens[i].pc \in {"new", "names", "rows"}

\* weak fairness of Resumed(i), WF_vars(Resumed(i)), with its ENABLED
\* written as CanResume(i)
SpecLive ==
    /\ InitLive
    /\ [][NextLive]_vars
    /\ \A i \in 1..MaxIters :
           <>[]CanResume(i) => []<><<Resumed(i)>>_vars


(***************************************************************************)
(* Properties.                                                             *)
(***************************************************************************)
\* the file has a valid header and every page of it is complete
WellFormedFile ==
    /\ file.header \in GoodHeaders
    /\ \A k \in 1..Len(file.kinds) : file.kinds[k] # "datacut"

\* the row slots of page n of the file, in position order
PageSlots(n) ==
    LET p == FilePages[n]
        x64 == FileHdr.byte32 = "3"
        bit_offset == IF x64 THEN PAGE_BIT_OFFSET_X64 ELSE PAGE_BIT_OFFSET_X86
        pointer == IF x64 THEN SUBHEADER_POINTER_LENGTH_X64
                   ELSE SUBHEADER_POINTER_LENGTH_X86
        data == SelectSeq(p.subheaders, IsRowBytes)
        raw == bit_offset + SUBHEADER_POINTERS_OFFSET +
               p.subheader_count * pointer
        mix == raw + ((8 - (raw % 8)) % 8)
    IN  IF p.type = PAGE_META_TYPE
        THEN IF Schema(file.schema).compression = None THEN << >>
             ELSE [j \in 1..Len(data) |->
                      [page |-> n, offset |-> data[j].offset]]
        ELSE IF p.type \in PAGE_MIX_TYPE
        THEN <<[page |-> n, offset |-> mix]>>
        ELSE IF p.type = PAGE_DATA_TYPE
        THEN [j \in 1..p.block_count |->
                 [page |-> n,
                  offset |-> bit_offset + SUBHEADER_POINTERS_OFFSET +
                             (j - 1) * 5]]
        ELSE << >>

\* the row slots of the file from page n on, in file order
RECURSIVE RowSlotsFrom(_)
RowSlotsFrom(n) ==
    IF n > Len(FilePages) THEN << >>
    ELSE PageSlots(n) \o RowSlotsFrom(n + 1)

RowSlots == RowSlotsFrom(1)

\* where a yielded row was decoded from
Position(r) == [page |-> r.page.n, offset |-> r.offset]

\* the schema of the reader r
SchemaOf(r) ==
    <<r.properties.column_count, r.properties.row_length,
      r.properties.row_count, r.properties.compression, r.columns,
      r.column_names, r.column_types, r.column_data_offsets,
      r.column_data_lengths>>

\* C1: a generator that is the only one of the reader of a well-formed
\* file never yields more than row_count rows, is not stopped by an
\* exception while the file is open, and has yielded exactly row_count rows
\* when it ends.
C1_RowYield ==
    (WellFormedFile /\ Len(gens) = 1) =>
        /\ gens[1].rows <= gens[1].row_count
        /\ gens[1].pc = "raised" => ~rd.file_open
        /\ gens[1].pc = "done" => gens[1].rows = gens[1].row_count

\* the only generator of a well-formed file of three rows has ended
C1_Witness ==
    /\ WellFormedFile
    /\ Len(gens) = 1
    /\ gens[1].pc = "done"
    /\ gens[1].row_count = 3
    /\ gens[1].rows = 3

\* C2: for the only generator of the reader of a well-formed file that
\* stores row_count rows, the k-th row yielded is decoded from the k-th row
\* slot of the file.
C2_FileOrder ==
    (WellFormedFile /\ Len(gens) = 1 /\ Len(RowSlots) = gens[1].row_count) =>
        \A k \in 1..Len(emitted) :
            /\ k <= Len(RowSlots)
            /\ Position(emitted[k]) = RowSlots[k]

\* C3: once the constructor has returned on a well-formed file that stores
\* row_count rows, no step changes the schema.
C3_SchemaFrozen ==
    [][(phase = "ready" /\ WellFormedFile /\
        Len(RowSlots) = rd.properties.row_count)
       => SchemaOf(rd') = SchemaOf(rd)]_vars

\* C4: when a page read during row emission comes short before row_count
\* rows are yielded, the error is logged and no further row is yielded.
C4_TruncatedStops ==
    (short_read # None /\ Val(short_read) < rd.properties.row_count) =>
        /\ "failed to read complete page" \in rd.log
        /\ Len(emitted) <= Val(short_read)

\* C5: on a file with a short header or a wrong magic number the
\* constructor fails with the NotSAS error as soon as the header is read.
C5_NotSASFatal ==
    (file.header \in {"short", "magic"} /\ phase # "new") =>
        phase = "failed" /\ rd.exc = "NotSAS"

\* C6 as stated: whenever a generator has ended, the file is closed.
C6_ReleasedOnExhaustion ==
    \A i \in 1..Len(gens) : gens[i].pc = "done" => ~rd.file_open

\* C6: the file is closed only by close(): a step that closes it starts,
\* resumes and ends no generator.
C6_OpenUntilClose ==
    [][(rd.file_open /\ ~rd'.file_open) => gens' = gens]_vars

\* a generator has ended and the file is still open
C6_Witness ==
    \E i \in 1..Len(gens) : gens[i].pc = "done" /\ rd.file_open

\* what a value of column y is by the defaults and the reader's own extras
OwnKind ==
    LET fmt == Schema(file.schema).format
    IN  IF fmt = << >> THEN "float"
        ELSE IF fmt \in DefaultTimeFormats \cup args.time.strings THEN "time"
        ELSE IF fmt \in DefaultDateTimeFormats \cup args.date_time.strings
        THEN "datetime"
        ELSE IF fmt \in DefaultDateFormats \cup args.date.strings THEN "date"
        ELSE "float"

\* C7: whatever other readers are constructed, every row the reader yields
\* is decoded by the defaults and the reader's own extra format strings.
C7_NoSharedState ==
    \A k \in 1..Len(emitted) :
        Len(emitted[k].row_elements) = 2 =>
            emitted[k].row_elements[2].kind \in {OwnKind, "None"}

\* C8: convert_file returns failure when a line's cell count differs from
\* column_count or writing a row fails, and success only when every line
\* was written.
C8_ConvertStatus ==
    conv.state = "returned" =>
        /\ (conv.mismatch \/ conv.io_error) => Val(conv.result) = FALSE
        /\ Val(conv.result) = TRUE => conv.written = conv.i

C10_ExactLength ==
    row.stage = "decompressed" =>
        ~row.raised /\ Len(row.result) = rd.properties.row_length

\* the literal bytes of a slice that consists of literal copies only, each
\* with all the bytes it announces: [ok, bytes]
RECURSIVE LiteralsOf(_)
LiteralsOf(slice) ==
    IF slice = << >> THEN [ok |-> TRUE, bytes |-> << >>]
    ELSE LET op == slice[1] \div 16
             count == (slice[1] % 16) + 1 + 16 * (op - 8)
         IN  IF op \notin {8, 9, 10, 11} \/ Len(slice) < 1 + count
             THEN [ok |-> FALSE, bytes |-> << >>]
             ELSE LET rest == LiteralsOf(SubSeq(slice, count + 2, Len(slice)))
                  IN  [ok |-> rest.ok,
                       bytes |-> SubSeq(slice, 2, count + 1) \o rest.bytes]

\* the slice handed to the decompressor
RowSlice == SubSeq(row.page, 1, row.length)

\* C11: an RLE stream of literal copies only, whose lengths sum to
\* row_length, decompresses to the literal bytes in their order.
C11_RLEIdentity ==
    (/\ row.stage = "decompressed"
     /\ rd.properties.compression = RLE_COMPRESSION
     /\ LiteralsOf(RowSlice).ok
     /\ Len(LiteralsOf(RowSlice).bytes) = rd.properties.row_length) =>
        ~row.raised /\ row.result = LiteralsOf(RowSlice).bytes

\* a stream of a 0x9 copy and a 0x8 copy was decompressed into 20 bytes
C11_Witness ==
    /\ row.stage = "decompressed"
    /\ rd.properties.compression = RLE_COMPRESSION
    /\ row.length = 22
    /\ row.page[1] = 144
    /\ LiteralsOf(RowSlice).ok
    /\ Len(row.result) = 20
    /\ row.result = LiteralsOf(RowSlice).bytes

\* the first page of the file holds one row-size and one column-size
\* subheader, one format-and-label subheader for every column and no
\* further pointer
StandardFile == file.layout = StandardLayout

\* the lists of the schema have as many entries as the file has columns
SchemaSize(r) ==
    /\ Len(r.columns) = r.properties.column_count
    /\ Len(r.column_names) = r.properties.column_count
    /\ Len(r.column_types) = r.properties.column_count
    /\ Len(r.column_data_lengths) = r.properties.column_count

\* C12: when the constructor has returned on a well-formed file, columns,
\* column_names, column_types and column_data_lengths all have
\* column_count entries.
C12_SchemaSize ==
    (phase = "ready" /\ gens = << >> /\ WellFormedFile /\ StandardFile) =>
        SchemaSize(rd)

\* the constructor has returned with a schema of two columns
C12_Witness ==
    /\ phase = "ready" /\ gens = << >> /\ WellFormedFile /\ StandardFile
    /\ rd.properties.column_count = 2
    /\ Len(rd.columns) = 2
    /\ SchemaSize(rd)

\* C13: on a file without a format-and-label subheader the schema has
\* column_count columns with empty label and empty format, and every row
\* yielded has column_count cells.
C13_DefaultColumns ==
    (phase = "ready" /\ file.layout.format_and_label = 0) =>
        /\ Len(rd.columns) = rd.properties.column_count
        /\ \A k \in 1..Len(rd.columns) :
              rd.columns[k].label = << >> /\ rd.columns[k].format = << >>
        /\ \A k \in 1..Len(emitted) :
              Len(emitted[k].row_elements) = rd.properties.column_count
        /\ \A i \in 1..Len(gens) : gens[i].pc # "raised"

\* C14: the constructor fails on a file whose pages carry no or two
\* row-size subheaders, or no or two column-size subheaders.
C14_SchemaInconsistent ==
    (file.layout.row_size # 1 \/ file.layout.column_size # 1) =>
        phase \in {"new", "header", "failed"}

\* column y is a number column of 1 or 2 bytes and the projector was given
\* a row that holds its bytes
ShortNumber ==
    /\ row.stage = "projected"
    /\ ~row.raised
    /\ rd.columns[2].type = "number"
    /\ rd.column_data_lengths[2] \in {1, 2}
    /\ Len(row.page) >= 4
    /\ row.length >= rd.properties.row_length

\* C15: a number column of 1 or 2 bytes is decoded as a signed 16-bit
\* integer in the file's endianness, whatever its format.
C15_ShortInteger ==
    ShortNumber =>
        /\ row.exc = ""
        /\ row.cells = 2
        /\ rd.current_row.row_elements[2] =
               [kind |-> "int",
                v |-> UnpackShort(rd.endianess, SubSeq(row.page, 3, 4))]

\* C16: a read of a cell fails whenever the bytes it is given are fewer
\* than the size of the column: a row the projector returned has no cell
\* that ends beyond the buffer it was read from.
C16_TruncatedField ==
    (row.stage = "projected" /\ row.exc = "") =>
        \A k \in 1..row.cells :
            rd.column_data_offsets[k] + rd.column_data_lengths[k] <=
                rd.current_row.source_length

\* the cached page is a MIX page, the last page of a well-formed file that
\* stores row_count rows
OnLastMixPage ==
    /\ phase = "ready"
    /\ WellFormedFile
    /\ Len(RowSlots) = rd.properties.row_count
    /\ rd.cached_page = [tag |-> "page", n |-> Len(FilePages)]
    /\ FilePages[Len(FilePages)].type \in PAGE_MIX_TYPE

\* C17: while the last rows of the file are read from a MIX page, no step
\* of the iterator reads a further page.
C17_MixLastRows ==
    [][OnLastMixPage => rd'.cached_page = rd.cached_page]_vars

\* C18: a pointer of length 0 or with compression flag 1 is skipped: the
\* column-size subheader it names is not handled (column_count stays 2)
\* and the pointer is not put on the list of pending data subheaders.
C18_SkippedPointer ==
    (phase = "ready" /\ gens = << >> /\ file.layout.extra # "none") =>
        /\ rd.properties.column_count = 2
        /\ \A k \in 1..Len(rd.current_page_data_subheader_pointers) :
              LET pointer == rd.current_page_data_subheader_pointers[k]
              IN  pointer.length # 0 /\
                  pointer.compression # TRUNCATED_SUBHEADER_ID

\* the subheader is one a compressed dataset keeps a row in: its signature
\* is in no table, its compression flag is 0 or 4 and its type flag is 1
IsDataSub(sub) ==
    /\ sub.kind = "none"
    /\ sub.compression \in {0, COMPRESSED_SUBHEADER_ID}
    /\ sub.type = COMPRESSED_SUBHEADER_TYPE

\* the pointers to such subheaders in the pointer table of page p
DataPointers(p) ==
    LET subs == SelectSeq(p.subheaders, IsDataSub)
    IN  [k \in 1..Len(subs) |-> SubheaderPointer(subs[k])]

\* C19: the pending data pointers are pointers of the cached page, in the
\* order of its pointer table, to subheaders with an unknown signature,
\* compression flag 0 or 4 and type flag 1; there are none unless the
\* compression of the dataset is set, and none of a page that was left.
C19_PendingList ==
    /\ rd.current_page_data_subheader_pointers # << >> =>
          rd.cached_page.tag = "page" /\ rd.properties.compression # None
    /\ rd.cached_page.tag = "page" =>
          /\ Len(rd.current_page_data_subheader_pointers) <=
                 Len(DataPointers(FilePages[rd.cached_page.n]))
          /\ \A k \in 1..Len(rd.current_page_data_subheader_pointers) :
                rd.current_page_data_subheader_pointers[k] =
                    DataPointers(FilePages[rd.cached_page.n])[k]

\* during row emission the reader is on a later page that has a pending
\* data pointer
C19_Witness ==
    /\ phase = "ready"
    /\ emitted # << >>
    /\ rd.cached_page.tag = "page"
    /\ rd.cached_page.n >= 2
    /\ Len(rd.current_page_data_subheader_pointers) = 1
    /\ rd.current_page_data_subheader_pointers =
           DataPointers(FilePages[rd.cached_page.n])

\* what the RDC decompressor met on the slice
RowRDC ==
    RDCDecompress(0, row.length, rd.properties.row_length, row.page)

\* C20: at a marker of no class the RDC decompressor reports the marker
\* and ends the row: it consumes no byte of the slice after it.
C20_UnknownMarkerEnds ==
    (/\ row.stage = "decompressed"
     /\ rd.properties.compression = RDC_COMPRESSION
     /\ row.unknown) =>
        /\ RowRDC.logged # << >>
        /\ RowRDC.src_offset = RowRDC.logged[1]

\* what the RLE decompressor did on the slice
RowRLE ==
    RLEDecompress(0, row.length, rd.properties.row_length, row.page)

\* C21: the copy commands 0x0, 0x8, 0x9, 0xA and 0xB take no byte of the
\* page at or beyond the end of the compressed slice.
C21_CopyClamped ==
    (/\ row.stage = "decompressed"
     /\ rd.properties.compression = RLE_COMPRESSION
     /\ ~row.raised) =>
        RowRLE.top <= row.length

\* C22: the first marker of an RDC slice is taken for a one-byte
\* back-reference exactly when its first byte is 0x08 or 0x0A and the
\* nibbles of the byte after it differ.
C22_OneByteMarker ==
    (/\ row.stage = "decompressed"
     /\ rd.properties.compression = RDC_COMPRESSION
     /\ row.length >= 4
     /\ row.page[1] >= 128) =>
        /\ RowRDC.markers # << >>
        /\ RowRDC.markers[1] = "one_byte" <=>
               (row.page[3] \in {8, 10} /\ ~NibblesEqual(row.page[4]))

\* x rounded up to the next multiple of 8
RoundUp8(x) == x + ((8 - (x % 8)) % 8)

\* C23: the offset of a row on a MIX page is the end of the pointer table,
\* page_bit_offset + 8 + subheader_count * subheader_pointer_length,
\* rounded up to a multiple of 8, plus row_on_page * row_length.
C23_MixRowBase ==
    row.stage = "base" =>
        row.offset =
            RoundUp8((IF rd.properties.u64 THEN 32 ELSE 16) + 8 +
                     Val(rd.current_page_subheaders_count) *
                     (IF rd.properties.u64 THEN 24 ELSE 12)) +
            rd.current_row_on_page_index * rd.properties.row_length

\* row 1 of a 32-bit MIX page with one subheader pointer: 36 rounds to 40
C23_Witness ==
    /\ row.stage = "base"
    /\ ~rd.properties.u64
    /\ rd.current_page_subheaders_count = Some(1)
    /\ rd.current_row_on_page_index = 1
    /\ row.offset = 45

\* C24: a text-subheader index beyond the last text subheader, in a
\* column name, a format or a label, is clamped to the last one and the
\* constructor raises no error.
C24_IndexClamped ==
    file.layout.text \in {"name_idx", "format_idx", "label_idx"} =>
        phase # "failed"

\* C25: a name, format or label of negative length is extracted as the
\* empty string.
C25_NegativeLength ==
    phase = "ready" =>
        /\ file.layout.text = "name_neg" => rd.columns[1].name = << >>
        /\ file.layout.text = "format_neg" => rd.columns[2].format = << >>
        /\ file.layout.text = "label_neg" => rd.columns[2].label = << >>

\* C26: once the header is parsed, the integer length of the subheader
\* handlers is 8 exactly when byte 32 of the header is '3' and byte 39
\* names unix; otherwise it is 4.
C26_WordWidth ==
    phase \in {"header", "ready"} =>
        int_length(rd) =
            IF FileHdr.byte32 = "3" /\ FileHdr.byte39 = "1" THEN 8 ELSE 4

\* the i-th generator has left readlines, by its end or by an exception
Ended(i) == i <= Len(gens) /\ gens[i].pc \in {"done", "raised"}

\* a resumption of the i-th generator that runs the loop
LoopStep(i) ==
    /\ i <= Len(gens)
    /\ gens[i].pc \in {"names", "rows"}
    /\ gens'[i] # gens[i]

\* C27: readlines terminates on every file: a resumption that enters the
\* loop body adds exactly one to current_row_in_file_index, the loop is
\* left as soon as the index has reached row_count, each resumption
\* reads pages only up to the end of the file, and every generator that
\* is resumed again and again comes to its end.
C27_ReadlinesTerminates ==
    /\ [][\A i \in 1..MaxIters :
             LoopStep(i) =>
                 /\ gens'[i].pc = "done" <=>
                        (rd.current_row_in_file_index >= gens[i].row_count
                         /\ gens'[i].exc = "")
                 /\ gens'[i].pc = "done" =>
                        rd'.current_row_in_file_index =
                            rd.current_row_in_file_index
                 /\ (gens'[i].pc # "done" /\ ~CachedPageFalsy(rd)) =>
                        rd'.current_row_in_file_index =
                            rd.current_row_in_file_index + 1
                 /\ rd'.file_pos <= Len(FilePages)]_vars
    /\ \A i \in 1..MaxIters : (i <= Len(gens)) ~> Ended(i)

\* a generator ended after it yielded a row
C27_Witness ==
    \E i \in 1..Len(gens) : gens[i].pc = "done" /\ gens[i].rows > 0

\* C28: the row position belongs to the reader: current_row_in_file_index
\* never decreases and never exceeds row_count, all generators of the
\* reader together yield at most row_count rows, and once the position
\* has reached row_count no resumption of any generator yields a row.
C28_RowPosition ==
    /\ [](phase = "ready" =>
             /\ rd.current_row_in_file_index <= rd.properties.row_count
             /\ Len(emitted) <= rd.properties.row_count)
    /\ [][/\ rd'.current_row_in_file_index >= rd.current_row_in_file_index
          /\ (/\ phase = "ready"
              /\ rd.current_row_in_file_index >= rd.properties.row_count) =>
                 emitted' = emitted]_vars

\* the first generator yielded every row and the second, resumed to its
\* end, only the column names
C28_Witness ==
    /\ Len(gens) = 2
    /\ gens[1].pc = "done" /\ gens[1].rows = rd.properties.row_count
    /\ gens[1].rows > 0
    /\ gens[2].pc = "done" /\ gens[2].rows = 0 /\ gens[2].names # None

\* the slice is one that _process_byte_array_with_data has to decompress
Compressed ==
    rd.properties.compression # None /\ row.length < rd.properties.row_length

\* C29: a row slice is decompressed exactly when the dataset is compressed
\* and the slice is shorter than row_length; the cells are then taken
\* from offset 0 of the decompressed buffer, and otherwise from the cached
\* page at the offset of the slice.
C29_DecompressWhen ==
    (row.stage = "projected" /\ row.exc = "") =>
        /\ rd.current_row.decompressed = Compressed
        /\ rd.current_row.row_elements # << >>
        /\ rd.current_row.row_elements[1].v =
               ReadVal("s",
                   IF Compressed
                   THEN PySlice(Decompress(rd.properties.compression,
                                    row.offset, row.length,
                                    rd.properties.row_length,
                                    row.page).result, 0, 2)
                   ELSE PySlice(row.page, row.offset, row.offset + 2),
                   2, rd.endianess).v

\* a slice behind two other bytes of the page was decompressed to 'AA...'
C29_Witness ==
    /\ row.stage = "projected" /\ row.exc = ""
    /\ Compressed /\ row.offset = 2
    /\ rd.current_row.decompressed
    /\ rd.current_row.row_elements[1].v = <<65, 65>>

\* C30: decompress_row of the RDC decompressor terminates: every pass of
\* the while loop moves the source offset on by at least the 2 bytes of
\* the prefix, a prefix governs at most 16 items, an unknown marker ends
\* the group at once with the source offset on the marker, and the call
\* returns or raises.
C30_RDCTerminates ==
    /\ [][(row.stage = "loop" /\ row'.stage = "loop") =>
             /\ row'.st.src_offset >= row.st.src_offset + 2
             /\ row'.st.groups = row.st.groups + 1
             /\ row'.st.items <= 16
             /\ Len(row'.st.logged) > Len(row.st.logged) =>
                    /\ Len(row'.st.logged) = Len(row.st.logged) + 1
                    /\ row'.st.brk
                    /\ row'.st.src_offset =
                           row'.st.logged[Len(row'.st.logged)]]_vars
    /\ <>(row.stage = "returned")

\* the call returned after an unknown marker ended a group and a later
\* pass took the marker for a prefix
C30_Witness ==
    /\ row.stage = "returned"
    /\ row.st.logged # << >>
    /\ row.st.groups >= 2
    /\ row.st.src_offset > row.st.logged[1]

====
